---- MODULE Spec2Model ----
(***************************************************************************)
(* nbtools.nbstat: the ResourceTable engine (resource_table.py).           *)
(*                                                                         *)
(* A table is the list `data` of entries; an entry is a dict from column   *)
(* (Resource) to value.  A value is a scalar, None or a list of scalars.   *)
(* Values are tagged records so that isinstance(value, list) and Python's  *)
(* == between any two values can be evaluated:                             *)
(*    scalar v  ->  [list |-> FALSE, v |-> v, items |-> << >>]               *)
(*    None      ->  the scalar -1 (all modelled scalars are naturals)      *)
(*    [x, y]    ->  [list |-> TRUE,  v |-> 0, items |-> <<x, y>>]            *)
(* The attributes `index` and `index_values` do not exist before           *)
(* set_index; an absent attribute is NoIndex / << >> with has_index FALSE. *)
(***************************************************************************)
EXTENDS Integers, Sequences, FiniteSets, TLC

VARIABLES
    data,           \* self._data: the entries of the table `self`
    has_index,      \* whether the attributes index / index_values exist on `self`
    index,          \* self.index
    index_values,   \* self.index_values
    other,          \* the entries of the table passed as `other`
    ret,            \* outcome of the last call: the raised error or the returned table
    call,           \* the last call: its name, its arguments, `self` and `other` as they were
    formatter,      \* the ResourceFormatter in use: a list of columns (resource, include)
    inspector,      \* the ResourceInspector: its _cache and _v_position
    now,            \* time.time(), in tenths of the refresh interval
    watch,          \* output_looped: its locals and the point it has reached
    terminal        \* the terminal: its modes, what was written to it

table_vars == <<data, has_index, index, index_values, other, ret, call>>
session_vars == <<formatter, inspector, now, watch, terminal>>
vars == <<data, has_index, index, index_values, other, ret, call,
          formatter, inspector, now, watch, terminal>>

\* no formatter, inspector or watch loop exists: a table is used on its own
NoSession ==
    /\ formatter = << >>
    /\ inspector = << >>
    /\ now = 0
    /\ watch = << >>
    /\ terminal = << >>

----------------------------------------------------------------------------
(* Values *)

Sc(x) == [list |-> FALSE, v |-> x, items |-> << >>]
Li(s) == [list |-> TRUE, v |-> 0, items |-> s]
None == [list |-> FALSE, v |-> -1, items |-> << >>]

\* isinstance(value, list)
IsList(value) == value.list

Range(s) == {s[i] : i \in 1..Len(s)}

\* all sequences over S of length at most n
SeqsUpTo(S, n) == UNION {[1..k -> S] : k \in 0..n}

\* itertools-style concatenation of a sequence of sequences
RECURSIVE Flatten(_)
Flatten(ss) == IF ss = << >> THEN << >> ELSE Head(ss) \o Flatten(Tail(ss))

----------------------------------------------------------------------------
(* Errors and results *)

NoError == "ok"
NoIndex == "<no index>"
NoKey == "<no key>"

\* a call that raised: nothing is returned
Raised(error) == [error |-> error, data |-> << >>, has_index |-> FALSE,
                  index |-> NoIndex, index_values |-> << >>]

\* before the first call
NoReturn == [error |-> NoError, data |-> << >>, has_index |-> FALSE,
             index |-> NoIndex, index_values |-> << >>]

\* a call that returned a table
Returned(rows, hi, idx, ivs) == [error |-> NoError, data |-> rows, has_index |-> hi,
                                 index |-> idx, index_values |-> ivs]

\* what a method computes on the list of entries: an error, or the new list
Err(error) == [error |-> error, data |-> << >>]
Ok(rows) == [error |-> NoError, data |-> rows]

\* the record kept of a call
Call(name, self_key, other_key, arg, inplace) ==
    [name |-> name, self |-> data, other |-> other, has_index |-> has_index,
     index |-> index, index_values |-> index_values,
     self_key |-> self_key, other_key |-> other_key, arg |-> arg, inplace |-> inplace]

NoCall == [name |-> "none", self |-> << >>, other |-> << >>, has_index |-> FALSE,
           index |-> NoIndex, index_values |-> << >>,
           self_key |-> NoKey, other_key |-> NoKey, arg |-> << >>, inplace |-> TRUE]

----------------------------------------------------------------------------
(* ResourceTable: basic inner workings *)

\* ResourceTable.columns: None for an empty table, else the keys of the first entry
HasColumns(rows) == Len(rows) > 0
columns(rows) == IF Len(rows) = 0 THEN {} ELSE DOMAIN rows[1]

\* mutant: the key set of the entry is not compared with the columns
append_unchecked(rows, entry) == Ok(Append(rows, entry))

\* ResourceTable.append on the list of entries: the raised error, or the longer list
append(rows, entry) ==
    IF HasColumns(rows) /\ columns(rows) # DOMAIN entry
    THEN Err("ValueError")
    ELSE Ok(Append(rows, entry))

----------------------------------------------------------------------------
(* ResourceTable.merge *)

\* {**template, **self_entry, **other_entry}; other_entry = << >> when nothing matched
merged_entry(self_cols, other_cols, self_entry, other_entry) ==
    [c \in self_cols \cup other_cols |->
        IF c \in DOMAIN other_entry THEN other_entry[c]
        ELSE IF c \in DOMAIN self_entry THEN self_entry[c]
        ELSE None]

\* mutant: an inner join, the `if flag is False` branch is missing
merge_entry_inner(self_entry, self_cols, others, self_key, other_key) ==
    LET matching == SelectSeq(others, LAMBDA o : self_entry[self_key] = o[other_key])
    IN  [j \in 1..Len(matching) |->
            merged_entry(self_cols, columns(others), self_entry, matching[j])]

\* mutant: first match wins, the inner loop stops at the first matching entry
merge_entry_first(self_entry, self_cols, others, self_key, other_key) ==
    LET matching == SelectSeq(others, LAMBDA o : self_entry[self_key] = o[other_key])
    IN  IF matching = << >>
        THEN << merged_entry(self_cols, columns(others), self_entry, << >>) >>
        ELSE << merged_entry(self_cols, columns(others), self_entry, matching[1]) >>

\* the rows appended to `result` by one pass of the outer loop
RECURSIVE merge_inner_loop(_, _, _, _, _, _, _)
merge_inner_loop(self_entry, self_cols, other_cols, others, self_key, other_key, flag) ==
    IF others = << >>
    THEN IF flag = FALSE
         THEN << merged_entry(self_cols, other_cols, self_entry, << >>) >>
         ELSE << >>
    ELSE IF self_entry[self_key] = Head(others)[other_key]
         THEN << merged_entry(self_cols, other_cols, self_entry, Head(others)) >>
              \o merge_inner_loop(self_entry, self_cols, other_cols, Tail(others),
                                  self_key, other_key, TRUE)
         ELSE merge_inner_loop(self_entry, self_cols, other_cols, Tail(others),
                               self_key, other_key, flag)

merge_entry(self_entry, self_cols, others, self_key, other_key) ==
    merge_inner_loop(self_entry, self_cols, columns(others), others, self_key, other_key, FALSE)

\* mutant: tables that share a column are merged
merge_shared(self, others, self_key, other_key) ==
    IF ~HasColumns(self) THEN Raised("TypeError")
    ELSE IF self_key \notin columns(self) THEN Raised("ValueError")
    ELSE IF ~HasColumns(others) THEN Raised("TypeError")
    ELSE IF other_key \notin columns(others) THEN Raised("ValueError")
    ELSE Returned(Flatten([i \in 1..Len(self) |->
                      merge_entry(self[i], columns(self), others, self_key, other_key)]),
                  FALSE, NoIndex, << >>)

\* merge(self, other, self_key, other_key): `x not in None` is a TypeError
merge(self, others, self_key, other_key) ==
    IF ~HasColumns(self) THEN Raised("TypeError")
    ELSE IF self_key \notin columns(self) THEN Raised("ValueError")
    ELSE IF ~HasColumns(others) THEN Raised("TypeError")
    ELSE IF other_key \notin columns(others) THEN Raised("ValueError")
    ELSE IF columns(self) \cap columns(others) # {} THEN Raised("ValueError")
    ELSE Returned(Flatten([i \in 1..Len(self) |->
                      merge_entry(self[i], columns(self), others, self_key, other_key)]),
                  FALSE, NoIndex, << >>)

----------------------------------------------------------------------------
(* ResourceTable.update *)

\* dict.update: the keys of other_entry are overwritten
dict_update(self_entry, other_entry) ==
    [c \in DOMAIN self_entry \cup DOMAIN other_entry |->
        IF c \in DOMAIN other_entry THEN other_entry[c] ELSE self_entry[c]]

\* mutant: the inner loop breaks after the first matching entry
RECURSIVE update_entry_first(_, _, _, _)
update_entry_first(self_entry, self_value, others, other_key) ==
    IF others = << >> THEN self_entry
    ELSE IF self_value = Head(others)[other_key]
         THEN dict_update(self_entry, Head(others))
         ELSE update_entry_first(self_entry, self_value, Tail(others), other_key)

\* mutant: the comparison is inverted (!= for ==)
RECURSIVE update_entry_neq(_, _, _, _)
update_entry_neq(self_entry, self_value, others, other_key) ==
    IF others = << >> THEN self_entry
    ELSE IF self_value # Head(others)[other_key]
         THEN update_entry_neq(dict_update(self_entry, Head(others)), self_value,
                               Tail(others), other_key)
         ELSE update_entry_neq(self_entry, self_value, Tail(others), other_key)

\* the inner loop: self_value was read once, before the loop; there is no break
RECURSIVE update_entry(_, _, _, _)
update_entry(self_entry, self_value, others, other_key) ==
    IF others = << >> THEN self_entry
    ELSE IF self_value = Head(others)[other_key]
         THEN update_entry(dict_update(self_entry, Head(others)), self_value,
                           Tail(others), other_key)
         ELSE update_entry(self_entry, self_value, Tail(others), other_key)

\* update(self, other, self_key, other_key) on the entries of (the copy of) self
update(self, others, self_key, other_key) ==
    IF ~HasColumns(self) THEN Err("TypeError")
    ELSE IF self_key \notin columns(self) THEN Err("ValueError")
    ELSE IF ~HasColumns(others) THEN Err("TypeError")
    ELSE IF other_key \notin columns(others) THEN Err("ValueError")
    ELSE IF columns(others) \cap columns(self) # columns(others) THEN Err("ValueError")
    ELSE Ok([i \in 1..Len(self) |->
                update_entry(self[i], self[i][self_key], others, other_key)])

----------------------------------------------------------------------------
(* ResourceTable.unroll *)

\* lens: the lengths of the list-valued items of an entry (as a set: set(lens))
lens(entry) == {Len(entry[c].items) : c \in {c \in DOMAIN entry : IsList(entry[c])}}

\* mutant: the non-list items are dropped to None in the rows after the first
unroll_entry_first_only(entry) ==
    LET n == CHOOSE n \in lens(entry) : TRUE
    IN  IF n = 0
        THEN << [c \in DOMAIN entry |-> IF ~IsList(entry[c]) THEN entry[c] ELSE None] >>
        ELSE [i \in 1..n |->
                [c \in DOMAIN entry |->
                    IF ~IsList(entry[c]) THEN (IF i = 1 THEN entry[c] ELSE None)
                    ELSE Sc(entry[c].items[i])]]

\* mutant: the list items are unrolled in reverse
unroll_entry_reversed(entry) ==
    LET n == CHOOSE n \in lens(entry) : TRUE
    IN  IF n = 0
        THEN << [c \in DOMAIN entry |-> IF ~IsList(entry[c]) THEN entry[c] ELSE None] >>
        ELSE [i \in 1..n |->
                [c \in DOMAIN entry |->
                    IF ~IsList(entry[c]) THEN entry[c] ELSE Sc(entry[c].items[n + 1 - i])]]

\* the rows one entry is unrolled into; len(set(lens)) == 1 holds
unroll_entry(entry) ==
    LET n == CHOOSE n \in lens(entry) : TRUE
    IN  IF n = 0
        THEN << [c \in DOMAIN entry |-> IF ~IsList(entry[c]) THEN entry[c] ELSE None] >>
        ELSE [i \in 1..n |->
                [c \in DOMAIN entry |->
                    IF ~IsList(entry[c]) THEN entry[c] ELSE Sc(entry[c].items[i])]]

\* the check of unroll on one entry: if len(set(lens)) != 1: raise ValueError
unroll_raises(entry) == Cardinality(lens(entry)) # 1

\* unroll on the entries of (the copy of) self; self.data is assigned at the end
unroll(rows) ==
    IF \E i \in 1..Len(rows) : unroll_raises(rows[i])
    THEN Err("ValueError")
    ELSE Ok(Flatten([i \in 1..Len(rows) |-> unroll_entry(rows[i])]))

----------------------------------------------------------------------------
(* ResourceTable.sort *)

\* An argument that is a scalar or a list: Sc(x) or Li(<<x, y>>).
\* key if isinstance(key, (tuple, list)) else [key]
key_list(key) == IF key.list THEN key.items ELSE << key.v >>

\* sort: x if isinstance(x, (tuple, list)) and len(x) == len(key) else [x] * len(key)
\* The elements are values: Sc(x) for the element x of a list, the argument itself
\* (a list of another length included) repeated otherwise.
arg_list(arg, n) ==
    IF arg.list /\ Len(arg.items) = n
    THEN [i \in 1..n |-> Sc(arg.items[i])]
    ELSE [i \in 1..n |-> arg]

\* sort_by_index: x if isinstance(x, (tuple, list)) else [x] * len(key)
arg_list_by_index(arg, n) ==
    IF arg.list
    THEN [i \in 1..Len(arg.items) |-> Sc(arg.items[i])]
    ELSE [i \in 1..n |-> arg]

\* sign = -1 if reverse_ is True else +1
sign(reverse_) == IF reverse_ = Sc(TRUE) THEN -1 ELSE 1

\* mutant: None is not replaced by the default
key_value_raw(entry, key_, default_) == entry[key_].v

\* value = entry[key_] if entry[key_] is not None else default_
key_value(entry, key_, default_) ==
    IF entry[key_] # None THEN entry[key_].v ELSE default_.v

\* mutant: `reverse` is taken from the first key for all keys
itemgetter_first_reverse(entry, key, default, reverse) ==
    [k \in 1..Len(key) |-> sign(reverse[1]) * key_value(entry, key[k], default[k])]

\* the tuple a row is sorted by
itemgetter(entry, key, default, reverse) ==
    [k \in 1..Len(key) |-> sign(reverse[k]) * key_value(entry, key[k], default[k])]

\* Python's order of tuples of numbers of one length: a < b
RECURSIVE tuple_less(_, _)
tuple_less(a, b) ==
    IF a = << >> \/ b = << >> THEN FALSE
    ELSE IF Head(a) # Head(b) THEN Head(a) < Head(b)
    ELSE tuple_less(Tail(a), Tail(b))

\* mutant: an unstable sort, an element goes before the elements it is equal to
RECURSIVE insert_before_equal(_, _, _, _)
insert_before_equal(sorted, sorted_keys, x, x_key) ==
    IF sorted = << >> THEN << x >>
    ELSE IF ~tuple_less(Head(sorted_keys), x_key) THEN << x >> \o sorted
    ELSE << Head(sorted) >> \o insert_before_equal(Tail(sorted), Tail(sorted_keys), x, x_key)

\* list.sort(key=...) is stable: an element goes after the elements not greater than it
RECURSIVE insert_sorted(_, _, _, _)
insert_sorted(sorted, sorted_keys, x, x_key) ==
    IF sorted = << >> THEN << x >>
    ELSE IF tuple_less(x_key, Head(sorted_keys)) THEN << x >> \o sorted
    ELSE << Head(sorted) >> \o insert_sorted(Tail(sorted), Tail(sorted_keys), x, x_key)

\* list.sort(key=...): xs sorted by keys (keys[i] is the key of xs[i])
RECURSIVE list_sort(_, _)
list_sort(xs, keys) ==
    IF xs = << >> THEN << >>
    ELSE LET n == Len(xs)
             front == list_sort(SubSeq(xs, 1, n - 1), SubSeq(keys, 1, n - 1))
             front_keys == list_sort(SubSeq(keys, 1, n - 1), SubSeq(keys, 1, n - 1))
         IN  insert_sorted(front, front_keys, xs[n], keys[n])

\* sort(key, default, reverse) on the entries of (the copy of) self
sort(rows, key, default, reverse) ==
    LET keys == key_list(key)
        defaults == arg_list(default, Len(keys))
        reverses == arg_list(reverse, Len(keys))
    IN  IF HasColumns(rows) /\ ~(Range(keys) \subseteq columns(rows))
        THEN Err("KeyError")
        ELSE Ok(list_sort(rows, [i \in 1..Len(rows) |->
                                    itemgetter(rows[i], keys, defaults, reverses)]))

----------------------------------------------------------------------------
(* ResourceTable.filter and the conditions passed to it *)

\* A condition is a lambda over an entry.  The modelled ones compare one column
\* with a value, as the inspector's `entry.get(DEVICE_ID) is not None` and
\* `entry[PYTHON_PPID] == -1` do: [column, equal, value] is
\* (entry[column] == value) == equal.
condition(cond, entry) == (entry[cond.column] = cond.value) = cond.equal

\* [entry for entry in self if condition(entry)]
filter(rows, cond) == Ok(SelectSeq(rows, LAMBDA entry : condition(cond, entry)))

----------------------------------------------------------------------------
(* ResourceTable: work with index *)

\* mutant: the values are collected in last-seen order (scanning from the end)
RECURSIVE unique_values_last(_, _, _)
unique_values_last(rows, idx, seen) ==
    IF rows = << >> THEN seen
    ELSE LET last == rows[Len(rows)][idx]
         IN  IF \E k \in 1..Len(seen) : seen[k] = last
             THEN unique_values_last(SubSeq(rows, 1, Len(rows) - 1), idx, seen)
             ELSE unique_values_last(SubSeq(rows, 1, Len(rows) - 1), idx, <<last>> \o seen)

\* the loop of set_index collecting the unique values, over the rest of the entries
RECURSIVE unique_values(_, _, _)
unique_values(rows, idx, seen) ==
    IF rows = << >> THEN seen
    ELSE IF \E k \in 1..Len(seen) : seen[k] = Head(rows)[idx]
         THEN unique_values(Tail(rows), idx, seen)
         ELSE unique_values(Tail(rows), idx, Append(seen, Head(rows)[idx]))

\* _get_subtable: the entries of one index value, in table order
get_subtable(rows, idx, index_value) ==
    SelectSeq(rows, LAMBDA entry : entry[idx] = index_value)

\* split_by_index: one subtable per index value, in the order of index_values
split_by_index(rows, idx, ivs) ==
    [k \in 1..Len(ivs) |-> get_subtable(rows, idx, ivs[k])]

\* entry[self.index] in _get_subtable is a KeyError for an entry without the
\* index column; with no index value there is no subtable to extract
index_missing(rows, idx, ivs) ==
    ivs # << >> /\ \E i \in 1..Len(rows) : idx \notin DOMAIN rows[i]

\* mutant: the rows are left where they are, only index_values is computed
index_major_not(rows, idx, ivs) == rows

\* the second loop of set_index: for value in index_values: for entry in self: ...
index_major(rows, idx, ivs) ==
    Flatten([k \in 1..Len(ivs) |-> SelectSeq(rows, LAMBDA entry : entry[idx] = ivs[k])])

\* set_index: entry[index] is a KeyError when the column is absent
set_index(rows, idx) ==
    IF HasColumns(rows) /\ idx \notin columns(rows)
    THEN [error |-> "KeyError", data |-> << >>, index_values |-> << >>]
    ELSE LET ivs == unique_values(rows, idx, << >>)
         IN  [error |-> NoError,
              data |-> index_major(rows, idx, ivs),
              index_values |-> ivs]

\* mutant: a group survives only if all of its entries satisfy the condition
group_survives_all(subtable, cond) ==
    \A k \in 1..Len(subtable) : condition(cond, subtable[k])

\* mutant: the filtered subtable is kept instead of the whole one
kept_filtered(subtable, cond) == filter(subtable, cond).data

\* filter_by_index: len(filtered_subtable) > 0
group_survives(subtable, cond) == Len(filter(subtable, cond).data) > 0

\* filter_by_index: data.extend(subtable.data)
kept_rows(subtable, cond) == subtable

\* mutant: the rows are filtered by group but index_values is not updated
filter_by_index_stale(rows, idx, ivs, cond) ==
    LET subtables == split_by_index(rows, idx, ivs)
        kept == {k \in 1..Len(ivs) : group_survives(subtables[k], cond)}
    IN  [error |-> NoError,
         data |-> Flatten([k \in 1..Len(ivs) |->
                     IF k \in kept THEN kept_rows(subtables[k], cond) ELSE << >>]),
         index_values |-> ivs]

\* filter_by_index on a table that has its index attributes
filter_by_index(rows, idx, ivs, cond) ==
    LET subtables == split_by_index(rows, idx, ivs)
        kept == {k \in 1..Len(ivs) : group_survives(subtables[k], cond)}
    IN  IF index_missing(rows, idx, ivs)
        THEN [error |-> "KeyError", data |-> rows, index_values |-> ivs]
        ELSE
        [error |-> NoError,
         data |-> Flatten([k \in 1..Len(ivs) |->
                     IF k \in kept THEN kept_rows(subtables[k], cond) ELSE << >>]),
         index_values |-> Flatten([k \in 1..Len(ivs) |->
                     IF k \in kept THEN << ivs[k] >> ELSE << >>])]

\* A condition of filter_on_index is a lambda over (index_value, subtable).  The
\* modelled ones look at the index value alone, as the inspector's do (a regular
\* expression searched in it): `keep` is the set of index values that match.
index_condition(keep, index_value, subtable) == index_value \in keep

\* filter_on_index on a table that has its index attributes
filter_on_index(rows, idx, ivs, keep) ==
    LET subtables == split_by_index(rows, idx, ivs)
        kept == {k \in 1..Len(ivs) : index_condition(keep, ivs[k], subtables[k])}
    IN  IF index_missing(rows, idx, ivs)
        THEN [error |-> "KeyError", data |-> rows, index_values |-> ivs]
        ELSE
        [error |-> NoError,
         data |-> Flatten([k \in 1..Len(ivs) |->
                     IF k \in kept THEN subtables[k] ELSE << >>]),
         index_values |-> Flatten([k \in 1..Len(ivs) |->
                     IF k \in kept THEN << ivs[k] >> ELSE << >>])]

----------------------------------------------------------------------------
(* ResourceTable.aggregate and sort_by_index *)

Maximum(S) == CHOOSE x \in S : \A y \in S : y <= x
Minimum(S) == CHOOSE x \in S : \A y \in S : x <= y

\* aggregate(key, default, aggregation) of a non-empty subtable;
\* max / min of an empty list is a ValueError (see sort_by_index)
aggregate(rows, key_, default_, aggregation_) ==
    LET values == {key_value(rows[i], key_, default_) : i \in 1..Len(rows)}
    IN  IF aggregation_ = "max" THEN Maximum(values) ELSE Minimum(values)

\* the tuple an index value is sorted by
itemgetter_by_index(subtable, key, default, reverse, aggregation) ==
    [k \in 1..Len(key) |->
        sign(reverse[k]) * aggregate(subtable, key[k], default[k], aggregation[k])]

\* sort_by_index on a table that has its index attributes: only index_values is
\* sorted, the entries stay where they are.  When a key function raises, list.sort
\* leaves the list as it was.
sort_by_index(rows, idx, ivs, key, default, reverse, aggregation) ==
    LET keys == key_list(key)
        defaults == arg_list_by_index(default, Len(keys))
        reverses == arg_list_by_index(reverse, Len(keys))
        aggregations == IF aggregation.list THEN aggregation.items
                        ELSE [i \in 1..Len(keys) |-> aggregation.v]
        subtables == split_by_index(rows, idx, ivs)
        raising == {k \in 1..Len(ivs) :
                       subtables[k] = << >> \/ ~(Range(keys) \subseteq columns(rows))}
    IN  IF index_missing(rows, idx, ivs)
        THEN [error |-> "KeyError", data |-> rows, index_values |-> ivs]
        ELSE IF raising # {}
        THEN [error |-> IF subtables[Minimum(raising)] = << >>
                        THEN "ValueError" ELSE "KeyError",
              data |-> rows, index_values |-> ivs]
        ELSE [error |-> NoError, data |-> rows,
              index_values |-> list_sort(ivs, [k \in 1..Len(ivs) |->
                  itemgetter_by_index(subtables[k], keys, defaults, reverses, aggregations)])]

----------------------------------------------------------------------------
(* ResourceTable.add_column *)

\* A function passed to add_column is a lambda over an entry.  The modelled ones
\* choose between two values on a condition, as the inspector's select_pid
\* (`ngid if ngid in device_pids else pid`) does: [cond, yes, no].
function(fn, entry) == IF condition(fn.cond, entry) THEN fn.yes ELSE fn.no

\* mutant: only the first entry gets the column
add_column_first(rows, key, fn) ==
    Ok([i \in 1..Len(rows) |->
          IF i = 1
          THEN [c \in DOMAIN rows[i] \cup {key} |->
                  IF c = key THEN function(fn, rows[i]) ELSE rows[i][c]]
          ELSE rows[i]])

\* for entry in self: entry[key] = function(entry)
add_column(rows, key, fn) ==
    Ok([i \in 1..Len(rows) |->
          [c \in DOMAIN rows[i] \cup {key} |->
              IF c = key THEN function(fn, rows[i]) ELSE rows[i][c]]])

----------------------------------------------------------------------------
(* Bounds and input domains of the join operations *)

MaxSelfRows == 2
MaxOtherRows == 2

\* process table (self) and device-process table (other) of the merge
ProcessColumns == {"pid", "ppid"}
DeviceColumns == {"device_pid", "mem"}
ProcessEntries == {[pid |-> Sc(p), ppid |-> q] : p \in {10, 11}, q \in {None, Sc(10)}}
DeviceEntries == {[device_pid |-> Sc(p), mem |-> m] : p \in {10, 11, 12}, m \in {None, Sc(500)}}

----------------------------------------------------------------------------
(* Merging two tables *)

NotIndexed == /\ has_index = FALSE
              /\ index = NoIndex
              /\ index_values = << >>

InitMerge ==
    /\ data \in SeqsUpTo(ProcessEntries, MaxSelfRows)
    /\ other \in SeqsUpTo(DeviceEntries, MaxOtherRows)
    /\ NotIndexed
    /\ ret = NoReturn
    /\ call = NoCall
    /\ NoSession

\* result = ResourceTable.merge(self, other, self_key, other_key)
Merge(self_key, other_key) ==
    /\ ret' = merge(data, other, self_key, other_key)
    /\ call' = Call("merge", self_key, other_key, << >>, FALSE)
    /\ UNCHANGED <<data, has_index, index, index_values, other>>
    /\ UNCHANGED session_vars

NextMerge == \E self_key, other_key \in ProcessColumns \cup DeviceColumns :
                 Merge(self_key, other_key)

SpecMerge == InitMerge /\ [][NextMerge]_vars

----------------------------------------------------------------------------
(* Claims about merge *)

\* the preconditions of merge: both key columns exist, no column is shared
MergeArgsValid == /\ call.self_key \in columns(call.self)
                  /\ call.other_key \in columns(call.other)
                  /\ columns(call.self) \cap columns(call.other) = {}

\* the entries of `other` matching the i-th entry of `self`, in other's order
Matches(i) == SelectSeq(call.other,
                        LAMBDA o : o[call.other_key] = call.self[i][call.self_key])

Max(a, b) == IF a >= b THEN a ELSE b

\* number of output rows owed to the first i entries of `self`
RECURSIVE RowsUpTo(_)
RowsUpTo(i) == IF i = 0 THEN 0 ELSE RowsUpTo(i - 1) + Max(1, Len(Matches(i)))

\* entry restricted to a set of columns
Restrict(entry, cols) == [c \in cols |-> entry[c]]

\* C1: with valid keys and disjoint columns, merge returns
\* sum over self rows of max(1, matches) rows, and every self row appears in the output
C1_MergeLength ==
    (call.name = "merge" /\ MergeArgsValid) =>
        /\ ret.error = NoError
        /\ Len(ret.data) = RowsUpTo(Len(call.self))
        /\ \A i \in 1..Len(call.self) : \E j \in 1..Len(ret.data) :
               Restrict(ret.data[j], columns(call.self)) = call.self[i]

\* a merge with fan-out (one self row matched twice) next to an unmatched self row
C1_Witness ==
    /\ call.name = "merge" /\ MergeArgsValid
    /\ Len(call.self) = 2
    /\ Len(Matches(1)) = 2
    /\ Len(Matches(2)) = 0
    /\ Len(ret.data) = 3

\* C2: merge is a left outer join with fan-out: for each self row in order, one
\* row per matching other row in other's order, or one null-filled row when nothing
\* matches; neither input table is modified
C2_LeftOuterJoin ==
    (call.name = "merge" /\ MergeArgsValid) =>
        /\ ret.error = NoError
        /\ \A i \in 1..Len(call.self) :
             LET off == RowsUpTo(i - 1)
                 m == Matches(i)
             IN  IF m = << >>
                 THEN /\ RowsUpTo(i) = off + 1
                      /\ off + 1 \in DOMAIN ret.data
                      /\ Restrict(ret.data[off + 1], columns(call.self)) = call.self[i]
                      /\ \A c \in columns(call.other) : ret.data[off + 1][c] = None
                 ELSE \A k \in 1..Len(m) :
                      /\ off + k \in DOMAIN ret.data
                      /\ Restrict(ret.data[off + k], columns(call.self)) = call.self[i]
                      /\ Restrict(ret.data[off + k], columns(call.other)) = m[k]
        /\ Len(ret.data) = RowsUpTo(Len(call.self))
        /\ \A j \in 1..Len(ret.data) :
               DOMAIN ret.data[j] = columns(call.self) \cup columns(call.other)
        /\ data = call.self
        /\ other = call.other

\* the scenario of the specification: processes 10 and 11, one device process of pid 10
C2_Witness ==
    /\ call.name = "merge"
    /\ call.self_key = "pid" /\ call.other_key = "device_pid"
    /\ call.self = << [pid |-> Sc(10), ppid |-> None], [pid |-> Sc(11), ppid |-> Sc(10)] >>
    /\ call.other = << [device_pid |-> Sc(10), mem |-> Sc(500)] >>
    /\ Len(ret.data) = 2
    /\ ret.data[1]["pid"] = Sc(10) /\ ret.data[1]["mem"] = Sc(500)
    /\ ret.data[2]["pid"] = Sc(11) /\ ret.data[2]["mem"] = None

----------------------------------------------------------------------------
(* Methods with an `inplace` flag *)

\* self = self.maybe_copy(return_self=inplace); ...; self.data = rows; return self
\* r is what the method computed from the entries: an error or the new entries.
\* The copy made for inplace=False is ResourceTable(self.data): it has no index.
InPlace(r, inplace) ==
    /\ IF r.error # NoError
       THEN /\ ret' = Raised(r.error)
            /\ UNCHANGED data
       ELSE IF inplace
            THEN /\ data' = r.data
                 /\ ret' = Returned(r.data, has_index, index, index_values)
            ELSE /\ UNCHANGED data
                 /\ ret' = Returned(r.data, FALSE, NoIndex, << >>)
    /\ UNCHANGED <<has_index, index, index_values, other>>
    /\ UNCHANGED session_vars

\* The methods that read self.index_values: on a table without the attribute,
\* and on the copy made for inplace=False, that is an AttributeError.
\* r is what the method computed: an error, or the new entries and index values.
WithIndex(r, inplace) ==
    /\ IF ~inplace \/ ~has_index
       THEN /\ ret' = Raised("AttributeError")
            /\ UNCHANGED <<data, index_values>>
       ELSE IF r.error # NoError
            THEN /\ ret' = Raised(r.error)
                 /\ UNCHANGED <<data, index_values>>
            ELSE /\ data' = r.data
                 /\ index_values' = r.index_values
                 /\ ret' = Returned(r.data, TRUE, index, r.index_values)
    /\ UNCHANGED <<has_index, index, other>>
    /\ UNCHANGED session_vars

----------------------------------------------------------------------------
(* Updating a table from another *)

\* process table (self) and notebook table (other) of the update
KernelValues == {Sc(0), Sc(1)}
SelfEntries == {[kernel |-> k, name |-> n] : k \in KernelValues, n \in KernelValues}
OtherTables ==
    SeqsUpTo(SelfEntries, MaxOtherRows)
    \cup SeqsUpTo({[kernel |-> k] : k \in KernelValues}, MaxOtherRows)
    \cup SeqsUpTo({[name |-> n] : n \in KernelValues}, MaxOtherRows)
    \cup SeqsUpTo({[kernel |-> k, path |-> n] : k \in KernelValues, n \in KernelValues},
                  MaxOtherRows)

InitUpdate ==
    /\ data \in SeqsUpTo(SelfEntries, MaxSelfRows)
    /\ other \in OtherTables
    /\ NotIndexed
    /\ ret = NoReturn
    /\ call = NoCall
    /\ NoSession

\* self.update(other, self_key, other_key, inplace)
Update(self_key, other_key, inplace) ==
    /\ call' = Call("update", self_key, other_key, << >>, inplace)
    /\ InPlace(update(data, other, self_key, other_key), inplace)

NextUpdate == \E self_key, other_key \in {"kernel", "name", "path"}, inplace \in BOOLEAN :
                  Update(self_key, other_key, inplace)

SpecUpdate == InitUpdate /\ [][NextUpdate]_vars

----------------------------------------------------------------------------
(* Claims about update *)

\* the preconditions of update: both key columns exist, other's columns are self's
UpdateArgsValid == /\ call.self_key \in columns(call.self)
                   /\ call.other_key \in columns(call.other)
                   /\ columns(call.other) \subseteq columns(call.self)

\* the i-th entry of self overwritten with the values of other_entry
Overwritten(i, other_entry) ==
    [c \in columns(call.self) |->
        IF c \in DOMAIN other_entry THEN other_entry[c] ELSE call.self[i][c]]

\* C3 as stated: each self row takes the values of the FIRST matching other row
C3_FirstMatchWins ==
    (call.name = "update" /\ UpdateArgsValid) =>
        /\ ret.error = NoError
        /\ Len(ret.data) = Len(call.self)
        /\ \A i \in 1..Len(call.self) :
               ret.data[i] = IF Matches(i) = << >> THEN call.self[i]
                             ELSE Overwritten(i, Matches(i)[1])

\* C3 as amended: every matching other row is applied in other's order, so each self
\* row takes the values of the LAST other row whose other_key value equals the self
\* row's self_key value (as read before the update); unmatched rows are unchanged
C3_LastMatchWins ==
    (call.name = "update" /\ UpdateArgsValid) =>
        /\ ret.error = NoError
        /\ Len(ret.data) = Len(call.self)
        /\ \A i \in 1..Len(call.self) :
               ret.data[i] = IF Matches(i) = << >> THEN call.self[i]
                             ELSE Overwritten(i, Matches(i)[Len(Matches(i))])
        /\ call.inplace => data = ret.data
        /\ ~call.inplace => data = call.self

\* an in-place update where a self row is matched by two other rows of different values
C3_Witness ==
    /\ call.name = "update" /\ UpdateArgsValid /\ call.inplace
    /\ \E i \in 1..Len(call.self) :
          /\ Len(Matches(i)) = 2
          /\ Matches(i)[1] # Matches(i)[2]
          /\ data[i] = Overwritten(i, Matches(i)[2])
          /\ data[i] # Overwritten(i, Matches(i)[1])

\* C4 as stated: update is idempotent whenever other's columns are a subset of self's
C4_Idempotent ==
    (call.name = "update" /\ UpdateArgsValid) =>
        update(ret.data, call.other, call.self_key, call.other_key) = Ok(ret.data)

\* C4 as amended: update is idempotent when other does not contain the self_key
\* column, or when self_key and other_key are the same column
C4_IdempotentSameKey ==
    (/\ call.name = "update" /\ UpdateArgsValid
     /\ (call.self_key \notin columns(call.other) \/ call.self_key = call.other_key)) =>
        update(ret.data, call.other, call.self_key, call.other_key) = Ok(ret.data)

\* an update on one shared key column that changed a row
C4_Witness ==
    /\ call.name = "update" /\ UpdateArgsValid
    /\ call.self_key = call.other_key
    /\ ret.error = NoError
    /\ ret.data # call.self

----------------------------------------------------------------------------
(* The record of the last call is dropped before the next call: it is history,
   not a field of the table *)

Forget ==
    /\ call # NoCall
    /\ call' = NoCall
    /\ ret' = NoReturn
    /\ UNCHANGED <<data, has_index, index, index_values, other>>
    /\ UNCHANGED session_vars

----------------------------------------------------------------------------
(* Unrolling a table *)

MaxUnrollRows == 2

\* device table: one scalar column, two columns that hold a list, a scalar or None
DeviceIds == {Sc(0), Sc(1)}
PidLists == {Sc(10), Li(<< >>), Li(<<10>>), Li(<<10, 11>>)}
MemLists == {None, Li(<< >>), Li(<<500>>), Li(<<500, 600>>)}
UnrollEntries == {[device_id |-> d, device_pid |-> p, mem |-> m] :
                     d \in DeviceIds, p \in PidLists, m \in MemLists}

InitUnroll ==
    /\ data \in SeqsUpTo(UnrollEntries, MaxUnrollRows)
    /\ other = << >>
    /\ NotIndexed
    /\ ret = NoReturn
    /\ call = NoCall
    /\ NoSession

\* self.unroll(inplace)
Unroll(inplace) ==
    /\ call' = Call("unroll", NoKey, NoKey, << >>, inplace)
    /\ InPlace(unroll(data), inplace)

NextUnroll == \/ (call = NoCall /\ \E inplace \in BOOLEAN : Unroll(inplace))
              \/ Forget

SpecUnroll == InitUnroll /\ [][NextUnroll]_vars

----------------------------------------------------------------------------
(* Claims about unroll *)

ListColumns(entry) == {c \in DOMAIN entry : entry[c].list}

\* the list-valued columns of the entry have two different lengths
UnequalLengths(entry) ==
    \E c, d \in ListColumns(entry) : Len(entry[c].items) # Len(entry[d].items)

\* number of rows an entry is turned into: n, or 1 when n = 0
RowsOf(entry) ==
    IF \E c \in ListColumns(entry) : Len(entry[c].items) >= 1
    THEN Len(entry[CHOOSE c \in ListColumns(entry) : TRUE].items)
    ELSE 1

RECURSIVE UnrolledUpTo(_)
UnrolledUpTo(i) == IF i = 0 THEN 0 ELSE UnrolledUpTo(i - 1) + RowsOf(call.self[i])

\* the rows produced for the i-th entry are as the claim describes
UnrolledAsClaimed(i) ==
    LET entry == call.self[i]
        off == UnrolledUpTo(i - 1)
    IN  \A k \in 1..RowsOf(entry) :
          /\ off + k \in DOMAIN ret.data
          /\ DOMAIN ret.data[off + k] = DOMAIN entry
          /\ \A c \in DOMAIN entry :
               ret.data[off + k][c] =
                   IF c \notin ListColumns(entry) THEN entry[c]
                   ELSE IF entry[c].items = << >> THEN None
                   ELSE Sc(entry[c].items[k])

\* C8: unroll produces n rows for an entry whose list columns have the common
\* length n >= 1, one row with the list columns null for n = 0, and raises only
\* when the list columns of some entry have unequal lengths
C8_UnrollRejectsOnlyUnequal ==
    (call.name = "unroll") =>
        /\ ret.error # NoError <=> \E i \in 1..Len(call.self) : UnequalLengths(call.self[i])
        /\ ret.error = NoError =>
              /\ Len(ret.data) = UnrolledUpTo(Len(call.self))
              /\ \A i \in 1..Len(call.self) : UnrolledAsClaimed(i)

\* the entries all have list-valued columns, of one common length n >= 1 per entry
NonDegenerate(rows) ==
    \A i \in 1..Len(rows) :
        /\ ListColumns(rows[i]) # {}
        /\ ~UnequalLengths(rows[i])
        /\ \A c \in ListColumns(rows[i]) : Len(rows[i][c].items) >= 1

\* the list column c collected again from the block of rows of the i-th entry
Regrouped(i, c) ==
    LET n == RowsOf(call.self[i])
        off == UnrolledUpTo(i - 1)
    IN  Li([k \in 1..n |-> ret.data[off + k][c].v])

\* C9: for entries whose list columns have one common length n >= 1, collecting
\* each list column over the consecutive block of n rows of an entry gives back the
\* original list, and the non-list columns of the rows are those of the entry
C9_UnrollRoundTrip ==
    (call.name = "unroll" /\ NonDegenerate(call.self)) =>
        /\ ret.error = NoError
        /\ Len(ret.data) = UnrolledUpTo(Len(call.self))
        /\ \A i \in 1..Len(call.self) :
             /\ \A c \in ListColumns(call.self[i]) : Regrouped(i, c) = call.self[i][c]
             /\ \A k \in 1..RowsOf(call.self[i]) :
                  \A c \in DOMAIN call.self[i] \ ListColumns(call.self[i]) :
                      /\ ~ret.data[UnrolledUpTo(i - 1) + k][c].list
                      /\ ret.data[UnrolledUpTo(i - 1) + k][c] = call.self[i][c]

\* two entries with lists of two and of one element, unrolled into three rows
C9_Witness ==
    /\ call.name = "unroll" /\ NonDegenerate(call.self)
    /\ Len(call.self) = 2
    /\ RowsOf(call.self[1]) = 2 /\ RowsOf(call.self[2]) = 1
    /\ Cardinality(ListColumns(call.self[1])) = 2
    /\ Len(ret.data) = 3

----------------------------------------------------------------------------
(* Sorting a table *)

MaxSortRows == 3

\* two numeric columns that can hold None
SortEntries == {[a |-> x, b |-> y] : x \in {None, Sc(0), Sc(1)}, y \in {None, Sc(1)}}

\* key, default and reverse: a scalar each, or lists of the length of key
SortArgs ==
    {[key |-> Sc(k), default |-> Sc(d), reverse |-> Sc(r)] :
        k \in {"a", "b"}, d \in {0, 2}, r \in BOOLEAN}
    \cup {[key |-> Li(ks), default |-> d, reverse |-> r] :
        ks \in {<<"a", "b">>, <<"b", "a">>},
        d \in {Sc(0), Li(<<0, 2>>)},
        r \in {Sc(TRUE), Sc(FALSE), Li(<<TRUE, FALSE>>), Li(<<FALSE, TRUE>>)}}

InitSort ==
    /\ data \in SeqsUpTo(SortEntries, MaxSortRows)
    /\ other = << >>
    /\ NotIndexed
    /\ ret = NoReturn
    /\ call = NoCall
    /\ NoSession

\* self.sort(key, default, reverse, inplace)
Sort(arg, inplace) ==
    /\ call' = Call("sort", NoKey, NoKey, arg, inplace)
    /\ InPlace(sort(data, arg.key, arg.default, arg.reverse), inplace)

NextSort == \/ (call = NoCall /\ \E arg \in SortArgs, inplace \in BOOLEAN : Sort(arg, inplace))
            \/ Forget

SpecSort == InitSort /\ [][NextSort]_vars

----------------------------------------------------------------------------
(* Claims about sort *)

\* the k-th element of an argument given as a scalar or as a per-key list
ArgAt(arg, k) == IF arg.list THEN arg.items[k] ELSE arg.v

NumKeys == IF call.arg.key.list THEN Len(call.arg.key.items) ELSE 1

\* the k-th key value of a row as the claim compares it: None replaced by the
\* default of that key, negated when that key is reversed
Effective(row, k) ==
    LET value == row[ArgAt(call.arg.key, k)]
        number == IF value = None THEN ArgAt(call.arg.default, k) ELSE value.v
    IN  IF ArgAt(call.arg.reverse, k) THEN 0 - number ELSE number

\* row r comes strictly before row s in the lexicographic order of the key tuples
Before(r, s) ==
    \E k \in 1..NumKeys :
        /\ Effective(r, k) < Effective(s, k)
        /\ \A j \in 1..(k - 1) : Effective(r, j) = Effective(s, j)

SameKeys(r, s) == \A k \in 1..NumKeys : Effective(r, k) = Effective(s, k)

Perms(n) == {p \in [1..n -> 1..n] : \A i, j \in 1..n : p[i] = p[j] => i = j}

\* C10: sort orders the rows by their effective key tuples, keeps the original
\* relative order of rows with equal tuples, and only permutes the rows
C10_SortStable ==
    (call.name = "sort") =>
        /\ ret.error = NoError
        /\ Len(ret.data) = Len(call.self)
        /\ \E p \in Perms(Len(call.self)) :
             /\ \A k \in 1..Len(call.self) : ret.data[k] = call.self[p[k]]
             /\ \A k, l \in 1..Len(call.self) :
                  k < l => /\ ~Before(ret.data[l], ret.data[k])
                           /\ SameKeys(ret.data[k], ret.data[l]) => p[k] < p[l]
        /\ call.inplace => data = ret.data
        /\ ~call.inplace => data = call.self

\* the scenario of the specification ({a: None} sorts before {a: 1} with default 0),
\* in a sort that moved rows
C10_Witness ==
    /\ call.name = "sort"
    /\ call.arg = [key |-> Sc("a"), default |-> Sc(0), reverse |-> Sc(FALSE)]
    /\ Len(call.self) = 3
    /\ call.self[1]["a"] = Sc(1) /\ call.self[2]["a"] = None /\ call.self[3]["a"] = Sc(1)
    /\ ret.data = << call.self[2], call.self[1], call.self[3] >>
    /\ call.self[1] # call.self[3]

\* a two-key sort with the first key reversed and the second not
C10_WitnessPerKey ==
    /\ call.name = "sort"
    /\ call.arg.key = Li(<<"a", "b">>) /\ call.arg.reverse = Li(<<TRUE, FALSE>>)
    /\ Len(call.self) = 3
    /\ ret.data # call.self
    /\ ret.data[1]["a"] = Sc(1) /\ ret.data[2]["a"] = Sc(1) /\ ret.data[3]["a"] = Sc(0)
    /\ call.arg.default = Sc(0)
    /\ ret.data[1]["b"] = None /\ ret.data[2]["b"] = Sc(1)

----------------------------------------------------------------------------
(* The operations of an indexed table *)

\* self.set_index(index, inplace): the table returned has the index attributes
SetIndex(idx, inplace) ==
    LET r == set_index(data, idx)
    IN  /\ call' = Call("set_index", idx, NoKey, << >>, inplace)
        /\ IF r.error # NoError
           THEN /\ ret' = Raised(r.error)
                /\ UNCHANGED <<data, has_index, index, index_values>>
           ELSE /\ ret' = Returned(r.data, TRUE, idx, r.index_values)
                /\ IF inplace
                   THEN /\ data' = r.data
                        /\ has_index' = TRUE
                        /\ index' = idx
                        /\ index_values' = r.index_values
                   ELSE UNCHANGED <<data, has_index, index, index_values>>
        /\ UNCHANGED other
        /\ UNCHANGED session_vars

\* self.filter(condition, inplace)
Filter(cond, inplace) ==
    /\ call' = Call("filter", NoKey, NoKey, cond, inplace)
    /\ InPlace(filter(data, cond), inplace)

\* self.filter_by_index(condition, inplace)
FilterByIndex(cond, inplace) ==
    /\ call' = Call("filter_by_index", NoKey, NoKey, cond, inplace)
    /\ WithIndex(filter_by_index(data, index, index_values, cond), inplace)

\* self.filter_on_index(condition, inplace)
FilterOnIndex(keep, inplace) ==
    /\ call' = Call("filter_on_index", NoKey, NoKey, keep, inplace)
    /\ WithIndex(filter_on_index(data, index, index_values, keep), inplace)

\* self.sort_by_index(key, default, reverse, inplace, aggregation)
SortByIndex(arg, inplace) ==
    /\ call' = Call("sort_by_index", NoKey, NoKey, arg, inplace)
    /\ WithIndex(sort_by_index(data, index, index_values,
                               arg.key, arg.default, arg.reverse, arg.aggregation), inplace)

----------------------------------------------------------------------------
(* Indexing a table: set_index and the group-level operations *)

MaxIndexRows == 4

\* process table: the path (1 stands for '/a.ipynb', 2 for '/b.ipynb', 3 for a third
\* path) and the device id of a process, None when the process uses no device
IndexPaths == {Sc(1), Sc(2), Sc(3)}
IndexEntries == {[path |-> p, device_id |-> d] : p \in IndexPaths, d \in {None, Sc(0)}}

\* entry.get(DEVICE_ID) is not None; entry[DEVICE_ID] is None; entry[PATH] == 1
IndexConditions == {[column |-> "device_id", equal |-> FALSE, value |-> None],
                    [column |-> "device_id", equal |-> TRUE, value |-> None],
                    [column |-> "path", equal |-> TRUE, value |-> Sc(1)]}

\* sort_by_index(key=PATH, aggregation=min) and its reverse
IndexSortArgs == {[key |-> Sc("path"), default |-> Sc(0), reverse |-> Sc(r),
                   aggregation |-> Sc("min")] : r \in BOOLEAN}

\* sort(key=DEVICE_ID, default=999): the processes of a device first
DeviceSortArgs == {[key |-> Sc("device_id"), default |-> Sc(999), reverse |-> Sc(FALSE)]}

InitIndex ==
    /\ data \in SeqsUpTo(IndexEntries, MaxIndexRows)
    /\ other = << >>
    /\ NotIndexed
    /\ ret = NoReturn
    /\ call = NoCall
    /\ NoSession

NextIndex ==
    \/ (call = NoCall /\ \E idx \in {"path", "device_id", "pid"}, inplace \in BOOLEAN :
                             SetIndex(idx, inplace))
    \/ (call = NoCall /\ \E cond \in IndexConditions, inplace \in BOOLEAN :
                             FilterByIndex(cond, inplace))
    \/ (call = NoCall /\ \E keep \in SUBSET IndexPaths, inplace \in BOOLEAN :
                             FilterOnIndex(keep, inplace))
    \/ (call = NoCall /\ \E arg \in IndexSortArgs, inplace \in BOOLEAN :
                             SortByIndex(arg, inplace))
    \/ (call = NoCall /\ \E cond \in IndexConditions, inplace \in BOOLEAN :
                             Filter(cond, inplace))
    \/ (call = NoCall /\ \E arg \in DeviceSortArgs, inplace \in BOOLEAN :
                             Sort(arg, inplace))
    \/ Forget

SpecIndex == InitIndex /\ [][NextIndex]_vars

----------------------------------------------------------------------------
(* Claims about set_index, split_by_index and filter_by_index *)

NoDuplicates(seq) == \A i, j \in 1..Len(seq) : seq[i] = seq[j] => i = j

\* the values of a column over the rows, in row order
Column(rows, c) == [i \in 1..Len(rows) |-> rows[i][c]]

\* position of the first row that carries the value in column c
FirstSeen(rows, c, value) ==
    CHOOSE i \in 1..Len(rows) :
        /\ rows[i][c] = value
        /\ \A j \in 1..(i - 1) : rows[j][c] # value

\* position of a value in a list without duplicates
PositionIn(seq, value) == CHOOSE k \in 1..Len(seq) : seq[k] = value

\* C6: set_index sets index_values to the distinct index values in first-seen
\* order and reorders the rows into index-major order, each group keeping its
\* original relative order; split_by_index then returns one sub-table per index
\* value in that order; the multiset of rows is unchanged
C6_SetIndexFirstSeen ==
    (call.name = "set_index" /\ ret.error = NoError) =>
        LET rows == call.self
            idx == call.self_key
            ivs == ret.index_values
            groups == split_by_index(ret.data, ret.index, ret.index_values)
        IN  /\ ret.has_index /\ ret.index = idx
            /\ NoDuplicates(ivs)
            /\ Range(ivs) = Range(Column(rows, idx))
            /\ \A k, l \in 1..Len(ivs) :
                   k < l => FirstSeen(rows, idx, ivs[k]) < FirstSeen(rows, idx, ivs[l])
            /\ Len(ret.data) = Len(rows)
            /\ \E p \in Perms(Len(rows)) :
                 /\ \A k \in 1..Len(rows) : ret.data[k] = rows[p[k]]
                 /\ \A k, l \in 1..Len(rows) :
                      k < l =>
                        /\ PositionIn(ivs, ret.data[k][idx]) <= PositionIn(ivs, ret.data[l][idx])
                        /\ ret.data[k][idx] = ret.data[l][idx] => p[k] < p[l]
            /\ Len(groups) = Len(ivs)
            /\ \A k \in 1..Len(ivs) :
                 /\ groups[k] # << >>
                 /\ \A i \in 1..Len(groups[k]) : groups[k][i][idx] = ivs[k]
                 /\ groups[k] = SelectSeq(rows, LAMBDA entry : entry[idx] = ivs[k])
            /\ Flatten(groups) = ret.data
            /\ call.inplace =>
                 /\ data = ret.data /\ has_index
                 /\ index = idx /\ index_values = ivs
            /\ ~call.inplace =>
                 /\ data = call.self /\ has_index = call.has_index
                 /\ index = call.index /\ index_values = call.index_values

\* the scenario of the specification: the index sequence [b, a, b, a] gives [b, a]
\* (b is path 2, a is path 1), two groups of two rows
C6_Witness ==
    /\ call.name = "set_index" /\ call.self_key = "path" /\ call.inplace
    /\ Column(call.self, "path") = << Sc(2), Sc(1), Sc(2), Sc(1) >>
    /\ call.self[1] # call.self[3]
    /\ index_values = << Sc(2), Sc(1) >>
    /\ data = << call.self[1], call.self[3], call.self[2], call.self[4] >>
    /\ Len(split_by_index(data, index, index_values)) = 2

\* the second scenario: paths ['/a.ipynb', '/b.ipynb', '/a.ipynb'] give two groups,
\* '/a.ipynb' first with two rows, '/b.ipynb' second with one row
C6_WitnessSplit ==
    /\ call.name = "set_index" /\ call.self_key = "path" /\ call.inplace
    /\ Column(call.self, "path") = << Sc(1), Sc(2), Sc(1) >>
    /\ Len(split_by_index(data, index, index_values)) = 2
    /\ Len(split_by_index(data, index, index_values)[1]) = 2
    /\ Len(split_by_index(data, index, index_values)[2]) = 1
    /\ split_by_index(data, index, index_values)[2][1]["path"] = Sc(2)

\* the group of the k-th index value before the call
GroupBefore(k) ==
    SelectSeq(call.self, LAMBDA entry : entry[call.index] = call.index_values[k])

\* at least one row of the group satisfies the condition of the call
Survives(k) ==
    \E i \in 1..Len(GroupBefore(k)) : condition(call.arg, GroupBefore(k)[i])

----------------------------------------------------------------------------
(* The life of one table: every mutation, in any order *)

MaxRows == 3

\* process table: the path of a process and the devices it uses (None, one device
\* id, or a list of device ids not yet unrolled)
TablePaths == {Sc(1), Sc(2)}
TableEntries == {[path |-> p, device_id |-> d] :
                    p \in TablePaths, d \in {None, Sc(0), Li(<<0, 0>>)}}

\* an entry with another set of columns
OtherColumnsEntry == [path |-> Sc(1), device_id |-> None, name |-> Sc(0)]

\* entry.get(DEVICE_ID) is not None; entry[PATH] == 1
TableConditions == {[column |-> "device_id", equal |-> FALSE, value |-> None],
                    [column |-> "path", equal |-> TRUE, value |-> Sc(1)]}

\* functions for add_column: one per column they are stored in
TableFunctions ==
    {[key |-> "path",
      fn |-> [cond |-> [column |-> "device_id", equal |-> TRUE, value |-> None],
              yes |-> Sc(1), no |-> Sc(2)]],
     [key |-> "device_id",
      fn |-> [cond |-> [column |-> "path", equal |-> TRUE, value |-> Sc(1)],
              yes |-> Sc(0), no |-> None]]}

\* sort(key=PATH) and sort_by_index(key=PATH, aggregation=min), ascending or descending
TableSortArgs == {[key |-> Sc("path"), default |-> Sc(0), reverse |-> Sc(r),
                   aggregation |-> Sc("min")] : r \in BOOLEAN}

\* index conditions: the index values that match
TableKeeps == {{Sc(1)}, {Sc(2), None}}

\* the table passed to update: it moves the processes of device 0 to path 2
TableOther == << [path |-> Sc(2), device_id |-> Sc(0)] >>

Init ==
    /\ data \in SeqsUpTo(TableEntries, MaxRows)
    /\ other = TableOther
    /\ NotIndexed
    /\ ret = NoReturn
    /\ call = NoCall
    /\ NoSession

\* self.append(entry): returns None
AppendEntry(entry) ==
    LET r == append(data, entry)
    IN  /\ call' = Call("append", NoKey, NoKey, entry, TRUE)
        /\ IF r.error # NoError
           THEN /\ ret' = Raised(r.error)
                /\ UNCHANGED data
           ELSE /\ ret' = NoReturn
                /\ data' = r.data
        /\ UNCHANGED <<has_index, index, index_values, other>>
        /\ UNCHANGED session_vars

\* self.add_column(key, function): returns None
AddColumn(key, fn) ==
    /\ call' = Call("add_column", key, NoKey, fn, TRUE)
    /\ data' = add_column(data, key, fn).data
    /\ ret' = NoReturn
    /\ UNCHANGED <<has_index, index, index_values, other>>
    /\ UNCHANGED session_vars

Next ==
    \/ (call = NoCall /\ \E idx \in {"path", "device_id", "pid"}, inplace \in BOOLEAN :
                             SetIndex(idx, inplace))
    \/ (call = NoCall /\ \E entry \in TableEntries \cup {OtherColumnsEntry} :
                             (Len(data) < MaxRows /\ AppendEntry(entry)))
    \/ (call = NoCall /\ \E cond \in TableConditions, inplace \in BOOLEAN :
                             Filter(cond, inplace))
    \/ (call = NoCall /\ \E arg \in TableSortArgs, inplace \in BOOLEAN :
                             Sort(arg, inplace))
    \/ (call = NoCall /\ \E key \in {"device_id", "path"}, inplace \in BOOLEAN :
                             Update(key, key, inplace))
    \/ (call = NoCall /\ \E inplace \in BOOLEAN :
                             (Len(unroll(data).data) <= MaxRows /\ Unroll(inplace)))
    \/ (call = NoCall /\ \E f \in TableFunctions : AddColumn(f.key, f.fn))
    \/ (call = NoCall /\ \E arg \in TableSortArgs, inplace \in BOOLEAN :
                             SortByIndex(arg, inplace))
    \/ (call = NoCall /\ \E cond \in TableConditions, inplace \in BOOLEAN :
                             FilterByIndex(cond, inplace))
    \/ (call = NoCall /\ \E keep \in TableKeeps, inplace \in BOOLEAN :
                             FilterOnIndex(keep, inplace))
    \/ Forget

Spec == Init /\ [][Next]_vars

----------------------------------------------------------------------------
(* index_values over the life of a table *)

\* index_values lists exactly the distinct values the rows carry in the index column
Exact(rows, idx, ivs) ==
    /\ NoDuplicates(ivs)
    /\ Range(ivs) = {rows[i][idx] : i \in {j \in 1..Len(rows) : idx \in DOMAIN rows[j]}}

\* seq keeps some elements of a duplicate-free sequence, in the order they had
SubSequence(seq, of) == seq = SelectSeq(of, LAMBDA v : v \in Range(seq))

\* the methods that never assign index_values
IndexUnaware == {"append", "filter", "sort", "update", "unroll", "add_column"}

\* the methods that rebuild index_values from the groups they keep
IndexFilters == {"filter_by_index", "filter_on_index"}

\* the last call acted on the indexed table itself and did not raise
ActedOnIndexed ==
    /\ call # NoCall
    /\ call.has_index
    /\ call.inplace
    /\ ret.error = NoError

\* C5 as stated: once set_index has run, whatever mutations follow, index_values
\* is exactly the list of distinct index-column values of the rows, without
\* duplicates and without values that no row carries.
C5_IndexValuesExact == has_index => Exact(data, index, index_values)

\* C5 as amended: set_index makes index_values the exact, duplicate-free list of
\* the index-column values.  Afterwards append, filter, sort, update, unroll and
\* add_column leave index_values as it was; sort_by_index permutes it;
\* filter_by_index and filter_on_index remove values from it and keep the order of
\* the rest.  sort, sort_by_index, filter_by_index and filter_on_index keep an
\* exact index_values exact; index_values never holds a duplicate.
C5_IndexValuesMaintained ==
    /\ has_index => NoDuplicates(index_values)
    /\ (call # NoCall /\ call.name = "set_index" /\ call.inplace /\ ret.error = NoError)
            => has_index /\ index = call.self_key /\ Exact(data, index, index_values)
    /\ (call # NoCall /\ call.name \in IndexUnaware)
            => /\ has_index = call.has_index
               /\ index = call.index
               /\ index_values = call.index_values
    /\ (ActedOnIndexed /\ call.name = "sort_by_index")
            => /\ Len(index_values) = Len(call.index_values)
               /\ Range(index_values) = Range(call.index_values)
    /\ (ActedOnIndexed /\ call.name \in IndexFilters)
            => SubSequence(index_values, call.index_values)
    /\ (/\ ActedOnIndexed
        /\ call.name \in IndexFilters \cup {"sort", "sort_by_index"}
        /\ Exact(call.self, call.index, call.index_values))
            => Exact(data, index, index_values)

\* an exact index of two paths, and filter_by_index has removed the first group
C5_Witness ==
    /\ ActedOnIndexed
    /\ call.name = "filter_by_index"
    /\ Exact(call.self, call.index, call.index_values)
    /\ Len(call.index_values) = 2
    /\ index_values = Tail(call.index_values)
    /\ Len(data) < Len(call.self)

\* sort_by_index has exchanged the two values of an exact index
C5_WitnessSorted ==
    /\ ActedOnIndexed
    /\ call.name = "sort_by_index"
    /\ Exact(call.self, call.index, call.index_values)
    /\ Len(call.index_values) = 2
    /\ index_values = <<call.index_values[2], call.index_values[1]>>

\* filter has removed every row of an index value and index_values still lists it
C5_WitnessStale ==
    /\ ActedOnIndexed
    /\ call.name = "filter"
    /\ Exact(call.self, call.index, call.index_values)
    /\ ~Exact(data, index, index_values)

----------------------------------------------------------------------------
(* Claims about append *)

\* the column set of a table: every key that a row of it has
TableColumns(rows) == UNION {DOMAIN rows[i] : i \in 1..Len(rows)}

\* C11: append on a non-empty table raises the schema-mismatch error whenever the
\* key set of the entry differs from the column set of the table, and then the
\* rows are unchanged; otherwise (equal key sets, or an empty table) the entry
\* becomes the last row and the earlier rows are unchanged
C11_AppendSchema ==
    (call.name = "append") =>
        IF Len(call.self) > 0 /\ DOMAIN call.arg # TableColumns(call.self)
        THEN /\ ret.error = "ValueError"
             /\ data = call.self
        ELSE /\ ret.error = NoError
             /\ Len(data) = Len(call.self) + 1
             /\ data[Len(data)] = call.arg
             /\ SubSeq(data, 1, Len(call.self)) = call.self

\* an entry with another key set was offered to a table of two rows and rejected
C11_Witness ==
    /\ call.name = "append"
    /\ Len(call.self) = 2
    /\ DOMAIN call.arg # TableColumns(call.self)
    /\ ret.error = "ValueError"
    /\ data = call.self

\* an entry with the key set of the table was added after a row
C11_WitnessAccepted ==
    /\ call.name = "append"
    /\ Len(call.self) = 1
    /\ DOMAIN call.arg = TableColumns(call.self)
    /\ data = <<call.self[1], call.arg>>

----------------------------------------------------------------------------
(* ResourceTable.apply and the inspector's repair of missing device pids *)

\* A function passed to apply is a lambda over a value of the column.  The
\* modelled ones replace one value by another: [from, to].
value_function(fn, value) == IF value = fn.from THEN fn.to ELSE value

\* for entry in self: entry[key] = function(entry[key])
apply(rows, key, fn) ==
    IF HasColumns(rows) /\ key \notin columns(rows)
    THEN Err("KeyError")
    ELSE Ok([i \in 1..Len(rows) |->
               [c \in DOMAIN rows[i] |->
                   IF c = key THEN value_function(fn, rows[i][c]) ELSE rows[i][c]]])

\* The keys that nbstat_check_device_pids sets in a placeholder entry; of the ten
\* keys of the code (NAME, TYPE, PATH, STATUS, PID, ...) the two that tables of
\* this model have.
PlaceholderKeys == {"name", "path"}

\* entry = {**entry_template, NAME: name, ..., PATH: name, ...} for a missing pid
placeholder(rows, missing_pid) ==
    [c \in columns(rows) \cup PlaceholderKeys |->
        IF c \in PlaceholderKeys THEN Sc(missing_pid) ELSE None]

\* for missing_pid in sorted(missing_pids): table.append(entry); the template is
\* built once, before the loop.  A rejected append ends the loop with its error
\* and the entries appended before it stay.
RECURSIVE append_placeholders(_, _, _)
append_placeholders(rows, template_rows, missing_pids) ==
    IF missing_pids = << >> THEN Ok(rows)
    ELSE LET r == append(rows, placeholder(template_rows, Head(missing_pids)))
         IN  IF r.error # NoError
             THEN [error |-> r.error, data |-> rows]
             ELSE append_placeholders(r.data, template_rows, Tail(missing_pids))

----------------------------------------------------------------------------
(* The schema of a table built from nothing *)

MaxSchemaRows == 2

\* entries of three key sets; the lists of device ids are still empty
SchemaEntries ==
    {[path |-> p, device_id |-> d] : p \in TablePaths, d \in {None, Li(<< >>)}}
    \cup {OtherColumnsEntry, [path |-> Sc(1)]}

\* entry[PATH] == 1
SchemaConditions == {[column |-> "path", equal |-> TRUE, value |-> Sc(1)]}

SchemaFunctions ==
    {[key |-> "name",
      fn |-> [cond |-> [column |-> "path", equal |-> TRUE, value |-> Sc(1)],
              yes |-> Sc(0), no |-> None]],
     [key |-> "device_id",
      fn |-> [cond |-> [column |-> "path", equal |-> TRUE, value |-> Sc(1)],
              yes |-> None, no |-> Li(<< >>)]]}

SchemaApplies ==
    {[key |-> "path", fn |-> [from |-> Sc(2), to |-> Sc(1)]],
     [key |-> "name", fn |-> [from |-> None, to |-> Sc(0)]]}

\* the second table of update and merge: empty, with columns of the first table,
\* with a column the first table never has, or with columns of its own
SchemaOthers ==
    {<< >>,
     << [path |-> Sc(2), device_id |-> None] >>,
     << [path |-> Sc(1), kernel |-> Sc(0)] >>,
     << [device_pid |-> Sc(1), mem |-> Sc(5)], [device_pid |-> Sc(1), mem |-> None] >>}

\* the missing device pids, sorted
SchemaMissingPids == {<<1>>, <<1, 2>>}

InitSchema ==
    /\ data = << >>
    /\ other \in SchemaOthers
    /\ NotIndexed
    /\ ret = NoReturn
    /\ call = NoCall
    /\ NoSession

\* self.apply(key, function): returns None
Apply(key, fn) ==
    LET r == apply(data, key, fn)
    IN  /\ call' = Call("apply", key, NoKey, fn, TRUE)
        /\ IF r.error # NoError
           THEN /\ ret' = Raised(r.error)
                /\ UNCHANGED data
           ELSE /\ ret' = NoReturn
                /\ data' = r.data
        /\ UNCHANGED <<has_index, index, index_values, other>>
        /\ UNCHANGED session_vars

\* self.nbstat_check_device_pids(device_pids, table, add_to_table=True)
NbstatCheckDevicePids(missing_pids) ==
    LET r == append_placeholders(data, data, missing_pids)
    IN  /\ call' = Call("nbstat_check_device_pids", NoKey, NoKey, missing_pids, TRUE)
        /\ ret' = IF r.error # NoError THEN Raised(r.error) ELSE NoReturn
        /\ data' = r.data
        /\ UNCHANGED <<has_index, index, index_values, other>>
        /\ UNCHANGED session_vars

NextSchema ==
    \/ (call = NoCall /\ \E entry \in SchemaEntries :
                             (Len(data) < MaxSchemaRows /\ AppendEntry(entry)))
    \/ (call = NoCall /\ \E f \in SchemaFunctions : AddColumn(f.key, f.fn))
    \/ (call = NoCall /\ \E f \in SchemaApplies : Apply(f.key, f.fn))
    \/ (call = NoCall /\ \E self_key \in {"path", "kernel"}, other_key \in {"path", "device_pid"},
                            inplace \in BOOLEAN : Update(self_key, other_key, inplace))
    \/ (call = NoCall /\ \E inplace \in BOOLEAN : Unroll(inplace))
    \/ (call = NoCall /\ \E arg \in TableSortArgs, inplace \in BOOLEAN : Sort(arg, inplace))
    \/ (call = NoCall /\ \E cond \in SchemaConditions, inplace \in BOOLEAN :
                             Filter(cond, inplace))
    \/ (call = NoCall /\ \E idx \in {"path", "device_id"}, inplace \in BOOLEAN :
                             SetIndex(idx, inplace))
    \/ (call = NoCall /\ \E cond \in SchemaConditions, inplace \in BOOLEAN :
                             FilterByIndex(cond, inplace))
    \/ (call = NoCall /\ \E keep \in TableKeeps, inplace \in BOOLEAN :
                             FilterOnIndex(keep, inplace))
    \/ (call = NoCall /\ \E self_key \in {"path", "kernel"}, other_key \in {"path", "device_pid"} :
                             Merge(self_key, other_key))
    \/ (call = NoCall /\ \E missing_pids \in SchemaMissingPids :
                             (Len(data) + Len(missing_pids) <= MaxSchemaRows
                              /\ NbstatCheckDevicePids(missing_pids)))
    \/ Forget

SpecSchema == InitSchema /\ [][NextSchema]_vars

----------------------------------------------------------------------------
(* Claims about the schema of a table *)

\* all entries have the identical key set
Homogeneous(rows) == \A i, j \in 1..Len(rows) : DOMAIN rows[i] = DOMAIN rows[j]

C12_WitnessPlaceholder ==
    /\ call.name = "nbstat_check_device_pids"
    /\ ret.error = NoError
    /\ Len(call.self) = 1
    /\ Len(data) = 2

\* a merge has returned matched and unmatched rows
C12_WitnessMerge ==
    /\ call.name = "merge"
    /\ ret.error = NoError
    /\ Len(ret.data) = 3
    /\ "mem" \in DOMAIN ret.data[3]
    /\ ret.data[3]["mem"] = None
    /\ ret.data[1]["mem"] = Sc(5)

\* what the claim calls a join that must fail
BadJoin ==
    \/ call.self_key \notin TableColumns(call.self)
    \/ call.other_key \notin TableColumns(call.other)
    \/ (call.name = "merge" /\ TableColumns(call.self) \cap TableColumns(call.other) # {})
    \/ (call.name = "update" /\ ~(TableColumns(call.other) \subseteq TableColumns(call.self)))

\* C13: merge and update raise an error and return nothing, and leave self as it
\* was, whenever self_key is not a column of self or other_key is not a column of
\* other, or (merge) the tables share a column, or (update) other has a column
\* that self does not have; an empty table has no column
C13_JoinRejects ==
    (call.name \in {"merge", "update"} /\ BadJoin)
        => /\ ret.error # NoError
           /\ ret.data = << >>
           /\ data = call.self

\* a merge on key columns that both exist, rejected for a shared column
C13_Witness ==
    /\ call.name = "merge"
    /\ call.self_key \in TableColumns(call.self)
    /\ call.other_key \in TableColumns(call.other)
    /\ TableColumns(call.self) \cap TableColumns(call.other) # {}
    /\ ret.error = "ValueError"

\* an update of a table of two rows from an empty table
C13_WitnessEmpty ==
    /\ call.name = "update"
    /\ Len(call.self) = 2
    /\ call.other = << >>
    /\ ret.error # NoError
    /\ data = call.self

\* an update rejected for a column of other that self does not have
C13_WitnessUpdate ==
    /\ call.name = "update"
    /\ call.self_key \in TableColumns(call.self)
    /\ call.other_key \in TableColumns(call.other)
    /\ "kernel" \in TableColumns(call.other)
    /\ ret.error = "ValueError"

----------------------------------------------------------------------------
(* ResourceFormatter (resource_formatter.py) *)

\* a column of a formatter: the dict {'resource': ..., 'include': ...}
FormatterColumn(resource, include) == [resource |-> resource, include |-> include]

\* 'TABLE_DELIMITER' in resource.name
is_delimiter(resource) == resource \in {"TABLE_DELIMITER1", "TABLE_DELIMITER2"}

\* resource.value of the two delimiters: consecutive auto() values
resource_value(resource) == IF resource = "TABLE_DELIMITER1" THEN 22 ELSE 23

\* max(resource, previous_resource, key=attrgetter('value'))
max_by_value(resource, previous_resource) ==
    IF resource_value(resource) >= resource_value(previous_resource)
    THEN resource ELSE previous_resource

\* formatter[key]: True if a column of the resource is included; never a KeyError
getitem(fmt, key) == \E i \in 1..Len(fmt) : fmt[i].resource = key /\ fmt[i].include

\* formatter[key] = value: sets the flag of the first column of the resource,
\* KeyError when the formatter has no column of the resource
setitem(fmt, key, value) ==
    IF \E i \in 1..Len(fmt) : fmt[i].resource = key
    THEN LET first == CHOOSE i \in 1..Len(fmt) :
                          /\ fmt[i].resource = key
                          /\ \A j \in 1..(i - 1) : fmt[j].resource # key
         IN  [error |-> NoError, formatter |-> [fmt EXCEPT ![first].include = value]]
    ELSE [error |-> "KeyError", formatter |-> fmt]

\* the loop of included_only over the columns from the i-th on.  `result` lists the
\* positions of the columns appended so far: the appended dicts are the columns of
\* the formatter itself, so rewriting the resource of the last one rewrites the
\* formatter.
RECURSIVE included_only_loop(_, _, _)
included_only_loop(fmt, i, result) ==
    IF i > Len(fmt)
    THEN [formatter |-> fmt, result |-> result]
    ELSE IF ~fmt[i].include
         THEN included_only_loop(fmt, i + 1, result)
         ELSE IF /\ is_delimiter(fmt[i].resource)
                 /\ Len(result) > 0
                 /\ is_delimiter(fmt[result[Len(result)]].resource)
              THEN included_only_loop(
                       [fmt EXCEPT ![result[Len(result)]].resource =
                                       max_by_value(fmt[i].resource, @)],
                       i + 1, result)
              ELSE included_only_loop(fmt, i + 1, Append(result, i))

\* formatter.included_only: the included columns, or the IndexError of
\* formatter[-1] on an empty list; `formatter` is the formatter afterwards
included_only(fmt) ==
    LET r == included_only_loop(fmt, 1, << >>)
        n == Len(r.result)
    IN  IF n = 0
        THEN [error |-> "IndexError", data |-> << >>, formatter |-> r.formatter]
        ELSE LET kept == IF is_delimiter(r.formatter[r.result[n]].resource)
                         THEN n - 1 ELSE n
             IN  [error |-> NoError,
                  data |-> [k \in 1..kept |-> r.formatter[r.result[k]]],
                  formatter |-> r.formatter]

----------------------------------------------------------------------------
(* A formatter whose columns are switched on and off *)

\* columns of NBSTAT_FORMATTER, in its order: the name, the process info, the
\* process resource usage, the device usage
NbstatColumns ==
    << FormatterColumn("NAME", TRUE),
       FormatterColumn("TABLE_DELIMITER1", TRUE),
       FormatterColumn("PID", TRUE),
       FormatterColumn("TABLE_DELIMITER1", TRUE),
       FormatterColumn("RSS", TRUE),
       FormatterColumn("TABLE_DELIMITER2", TRUE),
       FormatterColumn("DEVICE_SHORT_ID", TRUE),
       FormatterColumn("TABLE_DELIMITER1", TRUE),
       FormatterColumn("DEVICE_FAN", FALSE) >>

\* the resources a caller switches: those of the formatter, and one it lacks
FormatterKeys == {"NAME", "PID", "RSS", "DEVICE_SHORT_ID", "DEVICE_FAN",
                  "TABLE_DELIMITER1", "TABLE_DELIMITER2", "DEVICE_ID"}

\* no table is involved
NoTable ==
    /\ data = << >>
    /\ other = << >>
    /\ NotIndexed
    /\ ret = NoReturn
    /\ call = NoCall

InitFormatter ==
    /\ NoTable
    /\ formatter = NbstatColumns
    /\ inspector = << >>
    /\ now = 0
    /\ watch = << >>
    /\ terminal = << >>

\* formatter[key] = value
SetItem(key, value) ==
    LET r == setitem(formatter, key, value)
    IN  /\ call' = [name |-> "setitem", formatter |-> formatter, key |-> key, value |-> value]
        /\ ret' = [error |-> r.error, data |-> << >>]
        /\ formatter' = r.formatter
        /\ UNCHANGED <<data, has_index, index, index_values, other>>
        /\ UNCHANGED <<inspector, now, watch, terminal>>

\* formatter.included_only
IncludedOnly ==
    LET r == included_only(formatter)
    IN  /\ call' = [name |-> "included_only", formatter |-> formatter]
        /\ ret' = [error |-> r.error, data |-> r.data]
        /\ formatter' = r.formatter
        /\ UNCHANGED <<data, has_index, index, index_values, other>>
        /\ UNCHANGED <<inspector, now, watch, terminal>>

NextFormatter ==
    \/ (call = NoCall /\ \E key \in FormatterKeys, value \in BOOLEAN : SetItem(key, value))
    \/ (call = NoCall /\ IncludedOnly)
    \/ Forget

SpecFormatter == InitFormatter /\ [][NextFormatter]_vars

----------------------------------------------------------------------------
(* Claims about included_only *)

\* the included columns of a formatter, in order
Included(fmt) == SelectSeq(fmt, LAMBDA column : column.include)

\* a run of adjacent delimiters replaced by the highest-ranked delimiter of the run
RECURSIVE Collapsed(_)
Collapsed(cols) ==
    IF Len(cols) <= 1
    THEN cols
    ELSE LET rest == Collapsed(Tail(cols))
         IN  IF is_delimiter(Head(cols).resource) /\ is_delimiter(Head(rest).resource)
             THEN <<FormatterColumn(max_by_value(Head(cols).resource, Head(rest).resource),
                                    TRUE)>> \o Tail(rest)
             ELSE <<Head(cols)>> \o rest

\* without the delimiter at the start and the delimiter at the end
Stripped(cols) ==
    LET from == IF Len(cols) > 0 /\ is_delimiter(cols[1].resource) THEN 2 ELSE 1
        to == IF Len(cols) > 0 /\ is_delimiter(cols[Len(cols)].resource)
              THEN Len(cols) - 1 ELSE Len(cols)
    IN  SubSeq(cols, from, to)

\* C14: whenever at least one column is included, included_only returns a list
\* that does not start with a delimiter, does not end with a delimiter, has no
\* two adjacent delimiters, and in which a delimiter standing for a run of
\* included delimiters is the highest-ranked one of the run
C14_IncludedOnlyClean ==
    (call.name = "included_only" /\ Len(Included(call.formatter)) > 0) =>
        /\ ret.error = NoError
        /\ Len(ret.data) > 0 => /\ ~is_delimiter(ret.data[1].resource)
                                /\ ~is_delimiter(ret.data[Len(ret.data)].resource)
        /\ \A k \in 1..(Len(ret.data) - 1) :
               ~(is_delimiter(ret.data[k].resource) /\ is_delimiter(ret.data[k + 1].resource))
        /\ ret.data = Stripped(Collapsed(Included(call.formatter)))

\* C14, the case found: included_only has returned a list that starts with a
\* delimiter (NAME, the only column before the first delimiter, is switched off)
C14_LeadingDelimiter ==
    /\ call.name = "included_only"
    /\ ret.error = NoError
    /\ Len(ret.data) > 0
    /\ is_delimiter(ret.data[1].resource)

----------------------------------------------------------------------------
(* ResourceInspector.get_view: the cache of the collected table *)

\* the refresh interval passed to get_view, in ticks of the clock
Interval == 5

\* the clock stops here
MaxTime == 7

\* the longest time a collection takes, in ticks
MaxDuration == 1

\* self._cache = {}
NoCache == [table |-> << >>, time |-> 0, parameters |-> << >>, stored |-> FALSE]

\* ResourceInspector.__init__
NewInspector == [cache |-> NoCache, v_position |-> 0]

\* sum(int(column['include']) for column in formatter)
n_formatter(fmt) == Len(SelectSeq(fmt, LAMBDA column : column.include))

\* the resources a table is collected for: the included columns of the formatter
active_columns(fmt) == {fmt[i].resource : i \in {j \in 1..Len(fmt) : fmt[j].include}}

\* make_nbstat_table / make_devicestat_table: the table collected at time t for
\* a view, a verbosity and the resources the formatter includes
make_table(name, fmt, verbose, t) ==
    [name |-> name, verbose |-> verbose, columns |-> active_columns(fmt), time |-> t]

\* n_formatter compares the formatters of the cached table and of the request
same_formatter(fmt, parameters) == n_formatter(fmt) = parameters.n_formatter

\* the formatters compared by the columns they include
same_formatter_columns(fmt, parameters) == active_columns(fmt) = parameters.columns

\* cache_available(name, formatter, verbose, interval) at time t
cache_available(cache, name, fmt, verbose, t, interval) ==
    /\ cache.stored
    /\ ~(t - cache.time > interval)
    /\ name = cache.parameters.name
    /\ verbose = cache.parameters.verbose
    /\ same_formatter(fmt, cache.parameters)

\* interval * 0.8, for times counted in whole ticks
freshness(interval) == (interval * 8) \div 10

\* table.format(..., separate_index=separate_index, ...): ResourceTable.format has
\* no parameter of that name (it is add_separator), the call raises TypeError
format_call == "TypeError"

\* get_view(name, formatter, verbose, interval, use_cache): the table is taken from
\* the cache or collected (which takes `duration`) and stored; then the call of
\* table.format raises.  ret keeps the table the call went on with.
GetView(name, verbose, use_cache, duration) ==
    LET available == use_cache /\ cache_available(inspector.cache, name, formatter,
                                                  verbose, now, freshness(Interval))
        table == IF available
                 THEN inspector.cache.table
                 ELSE make_table(name, formatter, verbose, now)
    IN  /\ call' = [name |-> "get_view", view |-> name, verbose |-> verbose,
                    use_cache |-> use_cache, formatter |-> formatter,
                    cache |-> inspector.cache, now |-> now]
        /\ ret' = [error |-> format_call, data |-> << >>,
                   cached |-> available, table |-> table]
        /\ IF available
           THEN UNCHANGED <<inspector, now>>
           ELSE /\ now' = now + duration
                /\ inspector' = [inspector EXCEPT !.cache =
                       [table |-> table, time |-> now + duration, stored |-> TRUE,
                        parameters |-> [name |-> name,
                                        n_formatter |-> n_formatter(formatter),
                                        columns |-> active_columns(formatter),
                                        verbose |-> verbose]]]
        /\ UNCHANGED <<data, has_index, index, index_values, other>>
        /\ UNCHANGED <<formatter, watch, terminal>>

\* time passes
Tick ==
    /\ now < MaxTime
    /\ now' = now + 1
    /\ UNCHANGED table_vars
    /\ UNCHANGED <<formatter, inspector, watch, terminal>>

\* columns of NBSTAT_FORMATTER: the name and the process info
CacheColumns ==
    << FormatterColumn("NAME", TRUE),
       FormatterColumn("TABLE_DELIMITER1", TRUE),
       FormatterColumn("PID", TRUE),
       FormatterColumn("PPID", FALSE) >>

ViewNames == {"nbwatch", "devicewatch"}
Verbosities == {0, 2}

InitCache ==
    /\ NoTable
    /\ formatter = CacheColumns
    /\ inspector = NewInspector
    /\ now = 0
    /\ watch = << >>
    /\ terminal = << >>

NextCache ==
    \/ (call = NoCall /\ \E name \in ViewNames, verbose \in Verbosities, use_cache \in BOOLEAN,
                            duration \in 0..MaxDuration :
                             (now + duration <= MaxTime
                              /\ GetView(name, verbose, use_cache, duration)))
    \/ (call = NoCall /\ \E key \in {"PID", "PPID"}, value \in BOOLEAN : SetItem(key, value))
    \/ Tick
    \/ Forget

SpecCache == InitCache /\ [][NextCache]_vars

----------------------------------------------------------------------------
(* Claims about the cache *)

\* C15: get_view with use_cache goes on with the cached table, without collecting,
\* if and only if a table is cached, the request comes within 0.8 x interval of
\* the time of caching, and the view name, the verbosity and the set of included
\* columns are those the table was cached under
C15_CacheReuse ==
    (call.name = "get_view" /\ call.use_cache) =>
        (ret.cached <=>
            /\ call.cache.stored
            /\ 10 * (call.now - call.cache.time) <= 8 * Interval
            /\ call.view = call.cache.parameters.name
            /\ call.verbose = call.cache.parameters.verbose
            /\ active_columns(call.formatter) = call.cache.parameters.columns)

\* C15, the case found: a table collected for one set of columns is used for a
\* request that includes another set of as many columns
C15_ServedForOtherColumns ==
    /\ call.name = "get_view"
    /\ ret.cached
    /\ ret.table.columns # active_columns(call.formatter)

----------------------------------------------------------------------------
(* The watch loop: output_looped (cli.py) *)

\* redraw the whole screen when the printable length of the view changes by more
\* than this
ClearThreshold == 100

\* redraw the whole screen every so many frames
ClearPeriod == 100

\* terminal.height
TerminalHeight == 11

\* a column with the 'bar' key
BarColumn(resource, include, bar) == [resource |-> resource, include |-> include, bar |-> bar]

\* the columns of NBSTAT_FORMATTER that the keys of the loop switch, in its order
NbWatchColumns ==
    << FormatterColumn("NAME", TRUE),
       FormatterColumn("PATH", FALSE),
       FormatterColumn("TYPE", TRUE),
       FormatterColumn("PID", TRUE),
       FormatterColumn("PPID", FALSE),
       FormatterColumn("STATUS", FALSE),
       FormatterColumn("CREATE_TIME", FALSE),
       FormatterColumn("CPU", FALSE),
       FormatterColumn("RSS", TRUE),
       FormatterColumn("DEVICE_SHORT_ID", TRUE),
       FormatterColumn("DEVICE_PROCESS_MEMORY_USED", TRUE),
       BarColumn("DEVICE_UTIL", TRUE, FALSE),
       BarColumn("DEVICE_UTIL_MA", FALSE, FALSE),
       FormatterColumn("DEVICE_TEMP", TRUE) >>

\* the columns of DEVICESTAT_FORMATTER that the keys of the loop switch, in its order
DeviceWatchColumns ==
    << FormatterColumn("DEVICE_ID", TRUE),
       BarColumn("DEVICE_UTIL", TRUE, FALSE),
       BarColumn("DEVICE_UTIL_MA", FALSE, FALSE),
       FormatterColumn("DEVICE_TEMP", TRUE),
       FormatterColumn("DEVICE_PROCESS_MEMORY_USED", TRUE),
       FormatterColumn("NAME", TRUE),
       FormatterColumn("TYPE", FALSE),
       FormatterColumn("PID", FALSE),
       FormatterColumn("PPID", FALSE),
       FormatterColumn("STATUS", FALSE),
       FormatterColumn("CREATE_TIME", FALSE),
       FormatterColumn("CPU", FALSE),
       FormatterColumn("RSS", FALSE) >>

\* VIEW_TO_FORMATTER[NAME_TO_VIEW[name]]
view_formatter(name) == IF name = "nbwatch" THEN NbWatchColumns ELSE DeviceWatchColumns

\* other_name in main
other_view(name) == IF name = "nbwatch" THEN "devicewatch" ELSE "nbwatch"

\* make_parameters(name): the arguments of get_view the keys change
make_parameters(name) ==
    [add_footnote |-> TRUE, add_help |-> TRUE, verbose |-> 0, vertical_change |-> 0,
     separate_header |-> TRUE, separate_index |-> (name # "devicewatch"),
     separate_table |-> TRUE]

\* formatter.toggle_bars()
toggle_bars(fmt) ==
    [i \in 1..Len(fmt) |-> IF "bar" \in DOMAIN fmt[i]
                           THEN [fmt[i] EXCEPT !.bar = ~@]
                           ELSE fmt[i]]

\* formatter[resource] = not formatter[resource]
toggle(fmt, resource) == setitem(fmt, resource, ~getitem(fmt, resource))

\* resource in formatter: __contains__ catches the KeyError of __getitem__, which
\* __getitem__ never raises for a resource
contains(fmt, resource) == TRUE

\* the keys: inkey as a character or the name of inkey.code; Timeout is the empty
\* keystroke of terminal.inkey(timeout=...), "x" a key the loop does not know
Timeout == "<timeout>"
FunctionKeys == {"F1", "F2", "F3", "F4", "F6", "F7", "F8", "F13", "F14", "F15", "F16"}
ScrollKeys == {"DOWN", "UP", "PGDOWN", "PGUP"}
RecognizedKeys == {"TAB", "BTAB", "f", "h", "s", "S", "r", "b", "m", "v", "F5"}
                      \cup FunctionKeys \cup ScrollKeys
QuitKey == "q"
WatchKeys == RecognizedKeys \cup {QuitKey, "x"}

\* the resource a function key switches
key_resource(inkey) ==
    CASE inkey = "F1" -> "PID"
      [] inkey = "F2" -> "PPID"
      [] inkey = "F3" -> "CPU"
      [] inkey = "F4" -> "RSS"
      [] inkey = "F6" -> "DEVICE_PROCESS_MEMORY_USED"
      [] inkey = "F7" -> "DEVICE_UTIL"
      [] inkey = "F8" -> "DEVICE_TEMP"
      [] inkey = "F13" -> "TYPE"
      [] inkey = "F14" -> "STATUS"
      [] inkey = "F15" -> "CREATE_TIME"
      [] inkey = "F16" -> "PATH"

\* the vertical_change a scroll key asks for; -terminal.height // 2 is the floor
vertical_change_of(inkey, height) ==
    CASE inkey = "DOWN" -> 1
      [] inkey = "UP" -> -1
      [] inkey = "PGDOWN" -> height \div 2
      [] inkey = "PGUP" -> (-height) \div 2

\* the state of a handled key: the locals of the loop and the formatter
Handled(w, fmt, error) == [error |-> error, watch |-> w, formatter |-> fmt]

\* F5: both tests `resource in formatter` pass, both resources are switched
on_f5(w, fmt) ==
    LET first == IF contains(fmt, "DEVICE_SHORT_ID")
                 THEN toggle(fmt, "DEVICE_SHORT_ID")
                 ELSE [error |-> NoError, formatter |-> fmt]
    IN  IF first.error # NoError
        THEN Handled(w, fmt, first.error)
        ELSE LET second == IF contains(first.formatter, "DEVICE_ID")
                           THEN toggle(first.formatter, "DEVICE_ID")
                           ELSE [error |-> NoError, formatter |-> first.formatter]
             IN  Handled(w, second.formatter, second.error)

\* the branch of a recognized key (cli.py:109-183): the locals and the formatter
\* after it, or the exception it raised
on_key(w, fmt, height, inkey) ==
    CASE inkey \in {"TAB", "BTAB"} ->
             Handled([w EXCEPT !.name = w.other_name, !.other_name = w.name,
                               !.other_formatter = fmt,
                               !.view_args = w.other_view_args,
                               !.other_view_args = w.view_args,
                               !.initial_view_args = w.initial_other_view_args,
                               !.initial_other_view_args = w.initial_view_args,
                               !.initial_formatter = w.initial_other_formatter,
                               !.initial_other_formatter = w.initial_formatter],
                     w.other_formatter, NoError)
      [] inkey = "f" -> Handled([w EXCEPT !.view_args.add_footnote = ~@], fmt, NoError)
      [] inkey = "h" -> Handled([w EXCEPT !.view_args.add_help = ~@], fmt, NoError)
      [] inkey = "s" -> Handled([w EXCEPT !.view_args.separate_index = ~@], fmt, NoError)
      [] inkey = "S" -> Handled([w EXCEPT !.view_args.separate_header = ~@,
                                          !.view_args.separate_table = ~@], fmt, NoError)
      [] inkey = "r" -> Handled([w EXCEPT !.view_args = w.initial_view_args],
                                w.initial_formatter, NoError)
      [] inkey = "b" -> Handled(w, toggle_bars(fmt), NoError)
      [] inkey = "m" -> IF getitem(fmt, "DEVICE_UTIL")
                        THEN LET r == toggle(fmt, "DEVICE_UTIL_MA")
                             IN  Handled(w, r.formatter, r.error)
                        ELSE Handled(w, fmt, NoError)
      [] inkey = "v" -> Handled([w EXCEPT !.view_args.verbose = 2 - @], fmt, NoError)
      [] inkey \in FunctionKeys ->
             LET r == toggle(fmt, key_resource(inkey))
             IN  Handled(w, r.formatter, r.error)
      [] inkey = "F5" -> on_f5(w, fmt)
      [] inkey \in ScrollKeys ->
             Handled([w EXCEPT !.view_args.vertical_change =
                                   vertical_change_of(inkey, height)], fmt, NoError)

\* the redraw decision of a frame (cli.py:88)
need_clear_unforced(current_len, prev_len, force_clear, counter) ==
    \/ current_len - prev_len > ClearThreshold
    \/ prev_len - current_len > ClearThreshold
    \/ counter % ClearPeriod = 0

need_clear(current_len, prev_len, force_clear, counter) ==
    \/ current_len - prev_len > ClearThreshold
    \/ prev_len - current_len > ClearThreshold
    \/ force_clear
    \/ counter % ClearPeriod = 0

\* leaving the block `with terminal.fullscreen(), terminal.cbreak(),
\* terminal.hidden_cursor()`, by return, by exception or by sys.exit
leave_hidden(term) == [term EXCEPT !.fullscreen = FALSE, !.cbreak = FALSE]

leave(term) == [term EXCEPT !.fullscreen = FALSE, !.cbreak = FALSE,
                            !.hidden_cursor = FALSE]

\* most frames and keys counted
MaxFrames == 3
MaxKeys == 2

Smaller(a, b) == IF a <= b THEN a ELSE b

\* main has made the parameters of both views; output_once or output_looped is
\* about to run.  inkey is the key the last wait ended with; frames, keys and
\* unclear count the frames shown, the keys pressed and the frames shown since
\* the last clear.
NewWatch(name) ==
    [pc |-> "start", result |-> "none", cause |-> "none",
     counter |-> 0, prev_len |-> 0, force_clear |-> FALSE,
     name |-> name, other_name |-> other_view(name),
     view_args |-> make_parameters(name),
     other_view_args |-> make_parameters(other_view(name)),
     other_formatter |-> view_formatter(other_view(name)),
     initial_view_args |-> make_parameters(name),
     initial_other_view_args |-> make_parameters(other_view(name)),
     initial_formatter |-> view_formatter(name),
     initial_other_formatter |-> view_formatter(other_view(name)),
     inkey |-> Timeout, frames |-> 0, keys |-> 0, unclear |-> 0]

\* Terminal(): start_position is what the last frame was printed after, stdout
\* the last thing printed beside frames, stderr whether a traceback was written
NewTerminal ==
    [fullscreen |-> FALSE, cbreak |-> FALSE, hidden_cursor |-> FALSE,
     height |-> TerminalHeight, start_position |-> "none",
     stdout |-> "none", stderr |-> FALSE]

InitWatch ==
    /\ NoTable
    /\ \E name \in ViewNames : /\ watch = NewWatch(name)
                               /\ formatter = view_formatter(name)
    /\ inspector = NewInspector
    /\ now = 0
    /\ terminal = NewTerminal

\* what inspector.get_view gives the loop: a view of some printable length, or an
\* exception
Views(lengths) == {[kind |-> "view", len |-> n] : n \in lengths}
Raises == [kind |-> "exception", len |-> 0]

\* output_once(inspector, name, formatter, view_args)
OutputOnce(outcome) ==
    /\ watch.pc = "start"
    /\ call' = [name |-> "output_once", outcome |-> outcome, watch |-> watch,
                formatter |-> formatter]
    /\ IF outcome.kind = "exception"
       THEN /\ terminal' = [terminal EXCEPT !.stdout = "Error on getting system information!"]
            /\ watch' = [watch EXCEPT !.pc = "exited", !.result = "raised",
                                      !.cause = "exception"]
       ELSE /\ terminal' = [terminal EXCEPT !.stdout = "view"]
            /\ watch' = [watch EXCEPT !.pc = "exited", !.result = "returned",
                                      !.cause = "done"]
    /\ UNCHANGED <<data, has_index, index, index_values, other, ret>>
    /\ UNCHANGED <<formatter, inspector, now>>

\* output_looped up to the loop: the terminal modes are entered, the locals set
Enter ==
    /\ watch.pc = "start"
    /\ call' = [name |-> "enter", watch |-> watch, formatter |-> formatter]
    /\ terminal' = [terminal EXCEPT !.fullscreen = TRUE, !.cbreak = TRUE,
                                    !.hidden_cursor = TRUE]
    /\ watch' = [watch EXCEPT !.pc = "frame", !.counter = 0, !.prev_len = 0,
                              !.force_clear = FALSE]
    /\ UNCHANGED <<data, has_index, index, index_values, other, ret>>
    /\ UNCHANGED <<formatter, inspector, now>>

\* one pass of the loop up to the wait for a key: get the view, decide on the
\* redraw, print; an exception is written to stderr and ends in sys.exit(1)
Frame(outcome) ==
    /\ watch.pc = "frame"
    /\ call' = [name |-> "frame", outcome |-> outcome, watch |-> watch,
                formatter |-> formatter]
    /\ LET counter == watch.counter + 1
           clear == need_clear(outcome.len, watch.prev_len, watch.force_clear, counter)
       IN  IF outcome.kind = "exception"
           THEN /\ terminal' = [leave(terminal) EXCEPT !.stderr = TRUE]
                /\ watch' = [watch EXCEPT !.pc = "exited", !.result = "exit 1",
                                          !.cause = "exception", !.counter = counter]
           ELSE /\ terminal' = [terminal EXCEPT
                                    !.start_position = IF clear THEN "clear" ELSE "move"]
                /\ watch' = [watch EXCEPT
                                 !.pc = "inkey",
                                 !.view_args.vertical_change = 0,
                                 !.force_clear = IF clear THEN FALSE ELSE @,
                                 !.counter = IF clear THEN 0 ELSE counter,
                                 !.prev_len = outcome.len,
                                 !.frames = Smaller(@ + 1, MaxFrames),
                                 !.unclear = IF clear THEN 0
                                             ELSE Smaller(@ + 1, ClearPeriod)]
    /\ UNCHANGED <<data, has_index, index, index_values, other, ret>>
    /\ UNCHANGED <<formatter, inspector, now>>

\* the rest of the pass: the wait for a key has ended, with a key or without
Key(inkey) ==
    /\ watch.pc = "inkey"
    /\ call' = [name |-> "key", inkey |-> inkey, watch |-> watch, formatter |-> formatter]
    /\ LET w == [watch EXCEPT !.inkey = inkey, !.keys = Smaller(@ + 1, MaxKeys)]
       IN  IF inkey = Timeout
           THEN /\ watch' = [watch EXCEPT !.pc = "frame", !.inkey = inkey]
                /\ UNCHANGED <<formatter, terminal>>
           ELSE IF inkey = QuitKey
           THEN /\ watch' = [w EXCEPT !.pc = "exited", !.result = "return 0",
                                      !.cause = "quit"]
                /\ terminal' = leave(terminal)
                /\ UNCHANGED formatter
           ELSE IF inkey \notin RecognizedKeys
           THEN /\ watch' = [w EXCEPT !.pc = "frame"]
                /\ terminal' = [terminal EXCEPT !.stdout = "Unrecognized key"]
                /\ UNCHANGED formatter
           ELSE LET r == on_key(w, formatter, terminal.height, inkey)
                IN  IF r.error # NoError
                    THEN /\ watch' = [r.watch EXCEPT !.pc = "exited", !.result = "exit 1",
                                                     !.cause = "exception"]
                         /\ terminal' = [leave(terminal) EXCEPT !.stderr = TRUE]
                         /\ formatter' = r.formatter
                    ELSE /\ watch' = [r.watch EXCEPT !.pc = "frame", !.force_clear = TRUE]
                         /\ formatter' = r.formatter
                         /\ UNCHANGED terminal
    /\ UNCHANGED <<data, has_index, index, index_values, other, ret>>
    /\ UNCHANGED <<inspector, now>>

\* Ctrl-C while the loop runs: KeyboardInterrupt, caught outside the loop
Interrupt ==
    /\ watch.pc \in {"frame", "inkey"}
    /\ call' = [name |-> "interrupt", watch |-> watch, formatter |-> formatter]
    /\ watch' = [watch EXCEPT !.pc = "exited", !.result = "return 0", !.cause = "interrupt"]
    /\ terminal' = leave(terminal)
    /\ UNCHANGED <<data, has_index, index, index_values, other, ret>>
    /\ UNCHANGED <<formatter, inspector, now>>

WatchLengths == {150}

NextWatch ==
    \/ \E outcome \in Views(WatchLengths) \cup {Raises} : OutputOnce(outcome)
    \/ Enter
    \/ \E outcome \in Views(WatchLengths) \cup {Raises} :
           (watch.frames < MaxFrames /\ Frame(outcome))
    \/ \E inkey \in WatchKeys \cup {Timeout} :
           ((inkey = Timeout \/ watch.keys < MaxKeys) /\ Key(inkey))
    \/ Interrupt

SpecWatch == InitWatch /\ [][NextWatch]_vars

----------------------------------------------------------------------------
(* Claims about the keys of the watch loop *)

\* what a key can change: the view, its arguments, its formatter
ViewState(w, fmt) == <<w.name, w.view_args, fmt>>

\* C16: a key other than the quit key never ends the loop; after a recognized
\* key the view state has changed and the next frame is made at once, with a
\* redraw; after an unrecognized key a diagnostic is printed, the view state is
\* as before and the loop goes on
C16_KeysKeepLoop ==
    (call.name = "key" /\ call.inkey \notin {Timeout, QuitKey}) =>
        /\ watch.pc = "frame"
        /\ call.inkey \in RecognizedKeys =>
               /\ watch.force_clear
               /\ ViewState(watch, formatter) # ViewState(call.watch, call.formatter)
        /\ call.inkey \notin RecognizedKeys =>
               /\ terminal.stdout = "Unrecognized key"
               /\ ViewState(watch, formatter) = ViewState(call.watch, call.formatter)

\* C16, the case found: a function key has ended the loop with exit status 1
C16_KeyEndsLoop ==
    /\ call.name = "key"
    /\ call.inkey \in {"F5", "F16"}
    /\ watch.pc = "exited"
    /\ watch.result = "exit 1"

----------------------------------------------------------------------------
(* Claims about the ways out of the loop *)

AllModes(term, on) == /\ term.fullscreen = on
                      /\ term.cbreak = on
                      /\ term.hidden_cursor = on

\* C17: while the loop runs the terminal is in fullscreen, cbreak and
\* hidden-cursor mode; once output_looped is left, all three modes are released,
\* with result 0 after the quit key or an interrupt, and with the exception
\* written to stderr and exit status 1 after an exception; output_once reports
\* an exception and raises it again
C17_TerminalRestored ==
    /\ watch.pc \in {"frame", "inkey"} => AllModes(terminal, TRUE)
    /\ watch.pc = "exited" =>
           /\ AllModes(terminal, FALSE)
           /\ watch.cause \in {"quit", "interrupt"} =>
                  (watch.result = "return 0" /\ ~terminal.stderr)
           /\ (watch.cause = "exception" /\ call.name # "output_once") =>
                  (watch.result = "exit 1" /\ terminal.stderr)
           /\ (watch.cause = "exception" /\ call.name = "output_once") =>
                  /\ watch.result = "raised"
                  /\ terminal.stdout = "Error on getting system information!"

\* C17, its case: the loop has shown a frame and is left by the quit key
C17_Witness ==
    /\ call.name = "key"
    /\ call.inkey = QuitKey
    /\ call.watch.frames > 0
    /\ watch.pc = "exited"
    /\ AllModes(terminal, FALSE)
    /\ watch.result = "return 0"

\* left by an interrupt during the wait for a key
C17_WitnessInterrupt ==
    /\ call.name = "interrupt"
    /\ call.watch.pc = "inkey"
    /\ AllModes(terminal, FALSE)
    /\ watch.result = "return 0"

\* left by an exception of the second frame
C17_WitnessException ==
    /\ call.name = "frame"
    /\ call.outcome.kind = "exception"
    /\ call.watch.frames > 0
    /\ AllModes(terminal, FALSE)
    /\ terminal.stderr
    /\ watch.result = "exit 1"

\* output_once has reported an exception and raised it again
C17_WitnessOnce ==
    /\ call.name = "output_once"
    /\ call.outcome.kind = "exception"
    /\ watch.result = "raised"

----------------------------------------------------------------------------
(* The redraw decision over many frames *)

\* printable lengths of the views
RedrawLengths == {50, 120, 300}

\* no wait, 'f', a key the loop does not know
RedrawKeys == {Timeout, "f", "x"}

NextRedraw ==
    \/ Enter
    \/ \E outcome \in Views(RedrawLengths) : Frame(outcome)
    \/ \E inkey \in RedrawKeys : Key(inkey)

SpecRedraw == InitWatch /\ [][NextRedraw]_vars

\* the frame just printed: by how much its length differs from the frame before
LengthChange == IF call.outcome.len >= call.watch.prev_len
                THEN call.outcome.len - call.watch.prev_len
                ELSE call.watch.prev_len - call.outcome.len

\* the frame just printed is the ClearPeriod-th since the last full clear
PeriodElapsed == call.watch.unclear + 1 = ClearPeriod

Printed == call.name = "frame" /\ call.outcome.kind = "view"

\* C20 as stated: a frame is printed after a full clear if and only if its length
\* differs from the previous frame's by more than the threshold or it is the
\* 100th frame since the last clear, after a move to the top-left otherwise; no
\* 100 frames in a row are without a clear
C20_ClearIffLengthOrPeriod ==
    /\ Printed =>
           /\ terminal.start_position = "clear" <=>
                  (LengthChange > ClearThreshold \/ PeriodElapsed)
           /\ terminal.start_position \in {"clear", "move"}
    /\ watch.unclear < ClearPeriod

\* C20: a frame is printed after a full clear if and only if its length differs
\* from the previous frame's by more than the threshold, or the wait before it
\* ended with a recognized key, or it is the 100th frame since the last clear;
\* after a move to the top-left otherwise; no 100 frames in a row are without a
\* clear
C20_RedrawDecision ==
    /\ Printed =>
           /\ terminal.start_position = "clear" <=>
                  \/ LengthChange > ClearThreshold
                  \/ call.watch.inkey \in RecognizedKeys
                  \/ PeriodElapsed
           /\ terminal.start_position \in {"clear", "move"}
    /\ watch.unclear < ClearPeriod

\* C20, its case: a frame of nearly the same length, early in the period, is
\* printed after a clear because a key was pressed
C20_Witness ==
    /\ Printed
    /\ terminal.start_position = "clear"
    /\ LengthChange <= ClearThreshold
    /\ ~PeriodElapsed
    /\ call.watch.inkey \in RecognizedKeys

\* the 100th frame in a row is printed after a clear
C20_WitnessPeriod ==
    /\ Printed
    /\ terminal.start_position = "clear"
    /\ LengthChange <= ClearThreshold
    /\ PeriodElapsed
    /\ call.watch.inkey \notin RecognizedKeys

\* a frame is printed in place
C20_WitnessMove ==
    /\ Printed
    /\ terminal.start_position = "move"
    /\ call.watch.unclear > 0

----------------------------------------------------------------------------
(* The lines of a view: ResourceTable.format and the end of get_view *)

\* the most rows of a group of the table
MaxGroupRows == 9

\* a line of the view: what it is, and for a row its group and place in the group
Line(kind) == [kind |-> kind, group |-> 0, row |-> 0]
RowLine(group, row) == [kind |-> "row", group |-> group, row |-> row]

\* lines[a:b] for 0 <= a, 0 <= b
PySlice(lines, a, b) == SubSeq(lines, a + 1, Smaller(b, Len(lines)))

\* lines[-k:] for k >= 1
PyLast(lines, k) == SubSeq(lines, Len(lines) - Smaller(k, Len(lines)) + 1, Len(lines))

\* the rows of the groups, group after group; subtables lists the group sizes
RECURSIVE rows_of(_, _)
rows_of(subtables, g) ==
    IF g > Len(subtables)
    THEN << >>
    ELSE [r \in 1..subtables[g] |-> RowLine(g, r)] \o rows_of(subtables, g + 1)

\* the lines before the separators: 1 + len(self) of them, the header first if it
\* is added; without a header the last line stays empty
unseparated(subtables, add_header) ==
    IF add_header
    THEN <<Line("header")>> \o rows_of(subtables, 1)
    ELSE rows_of(subtables, 1) \o <<Line("empty")>>

\* s of the g-th group (resource_table.py:599-602): where its first row is
RECURSIVE group_start(_, _, _)
group_start(subtables, g, add_header) ==
    IF g = 1
    THEN (IF add_header THEN 1 ELSE 0)
    ELSE group_start(subtables, g - 1, add_header) + subtables[g - 1]

\* separator_indices once selected (resource_table.py:604-609)
separator_indices(subtables, add_header, separate_header, add_separator) ==
    LET starts == {group_start(subtables, g, add_header) : g \in 1..Len(subtables)}
        first == {group_start(subtables, g, add_header) : g \in {1} \cap (1..Len(subtables))}
    IN  IF add_header /\ separate_header /\ add_separator
        THEN starts
        ELSE IF add_header /\ separate_header
             THEN {}
             ELSE starts \ first

\* lines.insert(idx, separator) for the indices, the largest first: a separator
\* before each line whose place is one of the indices
RECURSIVE insert_separators(_, _, _)
insert_separators(lines, p, indices) ==
    IF p >= Len(lines)
    THEN << >>
    ELSE (IF p \in indices THEN <<Line("separator")>> ELSE << >>)
             \o <<lines[p + 1]>> \o insert_separators(lines, p + 1, indices)

\* table.format(add_header, separate_header, add_separator): the lines; with no
\* header and no row a column has no string, max() of nothing is a ValueError
format(subtables, add_header, separate_header, add_separator) ==
    LET lines == unseparated(subtables, add_header)
    IN  IF ~add_header /\ Len(subtables) = 0
        THEN [error |-> "ValueError", lines |-> << >>]
        ELSE [error |-> NoError,
              lines |-> IF add_separator \/ (add_header /\ separate_header)
                        THEN insert_separators(lines, 0,
                                 separator_indices(subtables, add_header,
                                                   separate_header, add_separator))
                        ELSE lines]

\* get_view after format (resource_inspector.py:570-588): the line for an empty
\* table, the table separator, the footnote (a line of counts if any table is
\* cached, and the system line), the two lines of help
additional_lines(lines, empty, args, parts) ==
    LET placed == IF empty
                  THEN PySlice(lines, 0, 1) \o <<Line("placeholder")>>
                           \o PySlice(lines, 1, Len(lines))
                  ELSE lines
        separated == IF args.separate_table
                     THEN Append(placed, Line("table_separator")) ELSE placed
        noted == IF args.add_footnote
                 THEN separated \o (IF parts THEN <<Line("footnote_counts")>> ELSE << >>)
                                \o <<Line("footnote")>>
                 ELSE separated
    IN  IF args.add_help
        THEN noted \o <<Line("help"), Line("help_keys")>>
        ELSE noted

Bit(flag) == IF flag THEN 1 ELSE 0

v_start_of(args) == Bit(args.add_header) + Bit(args.separate_header)
v_end_of(args) == Bit(args.separate_table) + 2 * Bit(args.add_footnote) + 2 * Bit(args.add_help)
v_size_of(args, height) == height - v_start_of(args) - v_end_of(args) - 5

Larger(a, b) == IF a >= b THEN a ELSE b

\* self._v_position after the call (resource_inspector.py:596)
v_position_unbounded(v_position, vertical_change, n_lines, args, height) ==
    Larger(0, v_position + vertical_change)

v_position_next(v_position, vertical_change, n_lines, args, height) ==
    Larger(0, Smaller(v_position + vertical_change,
                      n_lines - v_start_of(args) - v_end_of(args) - v_size_of(args, height)))

\* the visible lines (resource_inspector.py:590-600)
select_visible(lines, args, height, v_position, vertical_change) ==
    LET v_start == v_start_of(args)
        v_end == v_end_of(args)
        v_size == v_size_of(args, height)
        position == v_position_next(v_position, vertical_change, Len(lines), args, height)
        v_slice_start == v_start + position
        v_slice_end == v_slice_start + v_size
    IN  [v_position |-> position,
         lines |-> IF Len(lines) > height
                   THEN PySlice(lines, 0, v_start)
                            \o PySlice(lines, v_slice_start, v_slice_end)
                            \o PyLast(lines, IF v_end = 0 THEN 1 ELSE v_end)
                   ELSE lines]

\* The lines of a view in watch mode: format, the additional lines, the visible
\* lines.  get_view hands separate_index to format under a name format does not
\* have (format_call); here format gets it as add_separator, the parameter it
\* has for it, so that the code after the call is examined.
ViewLines(args, subtables, parts, height, vertical_change) ==
    LET formatted == format(subtables, args.add_header, args.separate_header,
                            args.separate_index)
        lines == additional_lines(formatted.lines, Len(subtables) = 0, args, parts)
        r == select_visible(lines, args, height, inspector.v_position, vertical_change)
    IN  /\ call' = [name |-> "view_lines", args |-> args, subtables |-> subtables,
                    parts |-> parts, height |-> height,
                    vertical_change |-> vertical_change,
                    v_position |-> inspector.v_position,
                    lines |-> IF formatted.error = NoError THEN lines ELSE << >>]
        /\ IF formatted.error # NoError
           THEN /\ ret' = [error |-> formatted.error, data |-> << >>]
                /\ UNCHANGED inspector
           ELSE /\ ret' = [error |-> NoError, data |-> r.lines]
                /\ inspector' = [inspector EXCEPT !.v_position = r.v_position]
        /\ UNCHANGED <<data, has_index, index, index_values, other>>
        /\ UNCHANGED <<formatter, now, watch, terminal>>

\* every combination of the flags
ScrollArgs == [add_header : BOOLEAN, separate_header : BOOLEAN, separate_index : BOOLEAN,
               separate_table : BOOLEAN, add_footnote : BOOLEAN, add_help : BOOLEAN]

\* tables: empty, one small group, two groups higher than the terminal together
ScrollTables == {<< >>, <<2>>, <<MaxGroupRows, MaxGroupRows>>}

\* terminals high enough for a viewport of at least one line under all flags
ScrollHeights == {TerminalHeight + 2, TerminalHeight + 5}

\* the scroll keys and no key
ScrollChanges(height) ==
    {0} \cup {vertical_change_of(inkey, height) : inkey \in ScrollKeys}

InitScroll ==
    /\ NoTable
    /\ formatter = << >>
    /\ inspector = NewInspector
    /\ now = 0
    /\ watch = << >>
    /\ terminal = << >>

NextScroll ==
    \/ (call = NoCall /\ \E args \in ScrollArgs, subtables \in ScrollTables, parts \in BOOLEAN,
                            height \in ScrollHeights :
                            \E vertical_change \in ScrollChanges(height) :
                                ViewLines(args, subtables, parts, height, vertical_change))
    \/ Forget

SpecScroll == InitScroll /\ [][NextScroll]_vars

----------------------------------------------------------------------------
(* Claims about scrolling *)

\* the lines of the frame that are the header: the column header and, when the
\* header is separated, the separator right under it
IsHeader(lines, i) ==
    \/ lines[i].kind = "header"
    \/ /\ i = 2
       /\ lines[1].kind = "header"
       /\ lines[2].kind = "separator"
       /\ call.args.separate_header

\* the lines that are the footer: table separator, footnote, help
IsFooter(lines, i) ==
    lines[i].kind \in {"table_separator", "footnote_counts", "footnote", "help", "help_keys"}

Positions(lines, Test(_, _)) == {i \in 1..Len(lines) : Test(lines, i)}

IsBody(lines, i) == ~IsHeader(lines, i) /\ ~IsFooter(lines, i)

\* the lines at a set of positions, in order
RECURSIVE Pick(_, _, _)
Pick(lines, positions, i) ==
    IF i > Len(lines)
    THEN << >>
    ELSE (IF i \in positions THEN <<lines[i]>> ELSE << >>) \o Pick(lines, positions, i + 1)

HeaderLines == Pick(call.lines, Positions(call.lines, IsHeader), 1)
BodyLines == Pick(call.lines, Positions(call.lines, IsBody), 1)
FooterLines == Pick(call.lines, Positions(call.lines, IsFooter), 1)

Viewed == call.name = "view_lines" /\ ret.error = NoError

C18_WitnessTop ==
    /\ Viewed
    /\ call.vertical_change < -1
    /\ call.v_position > 0
    /\ call.v_position + call.vertical_change < 0
    /\ inspector.v_position = 0

\* the table got smaller: the offset kept from before is brought back
C18_WitnessShrunk ==
    /\ Viewed
    /\ call.vertical_change = 0
    /\ inspector.v_position < call.v_position

\* C19: when the frame has more lines than the terminal, the visible lines are
\* all header lines, then a run of consecutive body lines that starts at the
\* scroll offset, then all footer lines
C19_HeaderFooterKept ==
    (Viewed /\ Len(call.lines) > call.height) =>
        \E n \in 0..Len(BodyLines) :
            ret.data = HeaderLines
                           \o SubSeq(BodyLines, inspector.v_position + 1,
                                     inspector.v_position + n)
                           \o FooterLines

\* C19, a case found: the device view by default (header separated, index not):
\* the first row of the table is shown under the header whatever the offset
C19_RowPinnedAsHeader ==
    /\ Viewed
    /\ Len(call.lines) > call.height
    /\ call.args.add_header /\ call.args.separate_header /\ ~call.args.separate_index
    /\ inspector.v_position > 0
    /\ ret.data[2] = RowLine(1, 1)

\* C19, a case found: no footer line is asked for and the last row of the table
\* is shown at the bottom whatever the offset
C19_RowPinnedAsFooter ==
    /\ Viewed
    /\ Len(call.lines) > call.height
    /\ v_end_of(call.args) = 0
    /\ call.args.add_header
    /\ inspector.v_position = 0
    /\ ret.data[Len(ret.data)] = RowLine(2, MaxGroupRows)

----------------------------------------------------------------------------
(* ResourceInspector: the tables of the collectors *)

\* Entries of the views.  Of the columns of the code, the tables of this part
\* keep those the view builders read or write; CMDLINE, PROCESS, DEVICE_NAME and
\* the resource readings are left out.  Names, paths, types and statuses are
\* numbers; PYTHON_PPID == -1 (no Python parent) is written RootPpid, as Sc(-1)
\* is the value None of this model and process ids are positive.
RootPpid == Sc(0)
NonPython == Sc(98)
DeviceZombie == Sc(99)
Sleeping == Sc(1)
Running == Sc(0)

\* process_info of get_process_table for one process
process_info(pid, ngid, path, python_ppid, kernel) ==
    [name |-> Sc(path), path |-> Sc(path), type |-> Sc(0), pid |-> Sc(pid),
     ppid |-> Sc(0), ngid |-> Sc(ngid), python_ppid |-> python_ppid,
     create_time |-> Sc(pid), kernel |-> kernel, status |-> Running]

\* device_info of get_device_table for one device and its compute processes
device_info(device_id, pids) ==
    [device_id |-> Sc(device_id), device_process_n |-> Sc(Len(pids)),
     device_process_pid |-> Li(pids),
     device_process_memory_used |-> Li([k \in 1..Len(pids) |-> 500])]

\* device_process_info: the rows get_device_table appends to device_process_table
\* for one row of device_table
device_process_info(info) ==
    [k \in 1..Len(info.device_process_pid.items) |->
        [device_id |-> info.device_id,
         device_process_pid |-> Sc(info.device_process_pid.items[k]),
         device_process_memory_used |-> Sc(info.device_process_memory_used.items[k])]]

\* get_device_table: the pair device_table, device_process_table
device_process_table_of(device_table) ==
    Flatten([d \in 1..Len(device_table) |-> device_process_info(device_table[d])])

\* table[key]: the list of the values of a column
column_values(rows, key) == [i \in 1..Len(rows) |-> rows[i][key]]

\* entry.get(key): None when the entry has no such key
get(entry, key) == IF key \in DOMAIN entry THEN entry[key] ELSE None

\* add_column(key, function) with the values the function returns, in row order
set_column(rows, key, values) ==
    [i \in 1..Len(rows) |->
        [c \in DOMAIN rows[i] \cup {key} |-> IF c = key THEN values[i] ELSE rows[i][c]]]

\* Python's bool used as a number
Bool(b) == IF b THEN Sc(1) ELSE Sc(0)

\* a set of numbers as an ascending list: sorted(...)
RECURSIVE sorted(_)
sorted(S) == IF S = {} THEN << >> ELSE << Minimum(S) >> \o sorted(S \ {Minimum(S)})

----------------------------------------------------------------------------
(* select_pid and nbstat_check_device_pids *)

\* mutant: the own pid if it is a device pid, otherwise the NGID
select_pid_own_first(entry, device_pids) ==
    IF \E k \in 1..Len(device_pids) : device_pids[k] = entry.pid
    THEN entry.pid ELSE entry.ngid

\* select_pid: result = ngid if ngid in device_pids else pid
select_pid(entry, device_pids) ==
    IF \E k \in 1..Len(device_pids) : device_pids[k] = entry.ngid
    THEN entry.ngid ELSE entry.pid

\* name = 'non-python' if psutil.pid_exists(missing_pid) else 'device_zombie'
missing_name(missing_pid, alive) == IF missing_pid \in alive THEN NonPython ELSE DeviceZombie

\* the ten keys nbstat_check_device_pids sets in a placeholder entry
MissingKeys == {"name", "type", "path", "status", "pid", "ppid", "ngid", "host_pid",
                "python_ppid", "create_time"}

\* entry = {**entry_template, NAME: name, TYPE: name, PATH: name, STATUS: 'sleeping',
\*          PID: missing_pid, ..., CREATE_TIME: missing_pid}
missing_entry(template_columns, missing_pid, alive) ==
    [c \in template_columns \cup MissingKeys |->
        IF c \in {"name", "type", "path"} THEN missing_name(missing_pid, alive)
        ELSE IF c = "status" THEN Sleeping
        ELSE IF c \in MissingKeys THEN Sc(missing_pid)
        ELSE None]

\* for missing_pid in sorted(missing_pids): ... table.append(entry); a rejected
\* append ends the loop with its error
RECURSIVE append_missing(_, _, _, _)
append_missing(rows, template_columns, missing_pids, alive) ==
    IF missing_pids = << >> THEN Ok(rows)
    ELSE LET r == append(rows, missing_entry(template_columns, Head(missing_pids), alive))
         IN  IF r.error # NoError THEN [error |-> r.error, data |-> rows]
             ELSE append_missing(r.data, template_columns, Tail(missing_pids), alive)

\* mutant: the missing pids are recorded in the warnings but not added to the table
nbstat_check_device_pids_warn_only(device_pids, rows, alive, warnings) ==
    LET set_device_pids == Range(device_pids)
        set_host_pids == Range(column_values(rows, "host_pid"))
        missing_pids == {p.v : p \in set_device_pids \ set_host_pids}
    IN  [error |-> NoError, data |-> rows,
         warnings |-> IF set_device_pids # set_host_pids THEN missing_pids ELSE warnings]

\* nbstat_check_device_pids(device_pids, table, add_to_table=True): the error
\* raised, the table and warnings['missing_device_pids'] after the call.
\* set.pop takes no argument: set_device_pids.pop(None) is a TypeError.
nbstat_check_device_pids(device_pids, rows, alive, warnings) ==
    LET set_device_pids == Range(device_pids)
        set_host_pids == Range(column_values(rows, "host_pid"))
        missing_pids == {p.v : p \in set_device_pids \ set_host_pids}
        added == append_missing(rows, columns(rows), sorted(missing_pids), alive)
    IN  IF None \in set_device_pids \/ None \in set_host_pids
        THEN [error |-> "TypeError", data |-> rows, warnings |-> warnings]
        ELSE IF set_device_pids = set_host_pids
        THEN [error |-> NoError, data |-> rows, warnings |-> warnings]
        ELSE [error |-> added.error, data |-> added.data, warnings |-> missing_pids]
----------------------------------------------------------------------------
(* make_nbstat_table *)

\* what a view builder leaves: the error raised or the table returned, the
\* warnings, and what the steps of the join left: the process table with its
\* HOST_PID column, the outcome of nbstat_check_device_pids, the merged table,
\* the table before it is sorted and filtered
ViewResult(error, rows, ivs, warnings, hosted, checked, merged, joined) ==
    [error |-> error, data |-> IF error = NoError THEN rows ELSE << >>,
     index_values |-> IF error = NoError THEN ivs ELSE << >>,
     warnings |-> warnings, hosted |-> hosted, checked |-> checked,
     merged |-> merged, joined |-> joined]

\* nbstat_check_device_pids was not called
NoCheck == [error |-> NoError, data |-> << >>, warnings |-> {}]

\* if device_process_table: add_column(HOST_PID, select_pid), the check of the
\* device pids and the merge on HOST_PID / DEVICE_PROCESS_PID
device_join(process_table, device_process_table, alive, warnings) ==
    LET device_pids == column_values(device_process_table, "device_process_pid")
        hosted == set_column(process_table, "host_pid",
                      [i \in 1..Len(process_table) |->
                          select_pid(process_table[i], device_pids)])
        checked == nbstat_check_device_pids(device_pids, hosted, alive, warnings)
        merged == merge(checked.data, device_process_table,
                        "host_pid", "device_process_pid")
    IN  IF device_process_table = << >>
        THEN [error |-> NoError, data |-> process_table, warnings |-> warnings,
              hosted |-> << >>, checked |-> NoCheck, merged |-> << >>]
        ELSE IF checked.error # NoError
        THEN [error |-> checked.error, data |-> << >>, warnings |-> checked.warnings,
              hosted |-> hosted, checked |-> checked, merged |-> << >>]
        ELSE [error |-> merged.error, data |-> merged.data,
              warnings |-> checked.warnings,
              hosted |-> hosted, checked |-> checked, merged |-> merged.data]

\* if notebook_table: table.update(notebook_table, self_key=KERNEL, other_key=KERNEL)
notebook_update(rows, notebook_table) ==
    IF notebook_table = << >> THEN Ok(rows)
    ELSE update(rows, notebook_table, "kernel", "kernel")

\* is_parent = lambda entry: entry[PYTHON_PPID] == -1
is_parent(entry) == Bool(entry.python_ppid = RootPpid)

\* uses_device = lambda entry: entry.get(DEVICE_ID) is not None
uses_device(entry) == Bool(get(entry, "device_id") # None)

\* if sort: add_column(IS_PARENT, is_parent); table.sort(key=[IS_PARENT, DEVICE_ID,
\* CREATE_TIME], reverse=[True, False, False], default=[0.0, 999, 0.0])
nbstat_sort(rows, sort_) ==
    IF ~sort_ THEN Ok(rows)
    ELSE sort(set_column(rows, "is_parent",
                         [i \in 1..Len(rows) |-> is_parent(rows[i])]),
              Li(<<"is_parent", "device_id", "create_time">>),
              Li(<<0, 999, 0>>), Li(<<TRUE, FALSE, FALSE>>))

\* mutant: with verbose == 0 only the rows of device processes are kept
nbstat_filter_device_only(rows, verbose) ==
    IF verbose # 0 THEN rows
    ELSE SelectSeq(rows, LAMBDA entry : get(entry, "device_id") # None)

\* if verbose == 0: table.filter(lambda entry: entry.get(DEVICE_ID) is not None
\*                                             or entry[PYTHON_PPID] == -1)
nbstat_filter(rows, verbose) ==
    IF verbose # 0 THEN rows
    ELSE SelectSeq(rows, LAMBDA entry :
             get(entry, "device_id") # None \/ entry.python_ppid = RootPpid)

\* if sort: add_column(USES_DEVICE, uses_device); table.sort_by_index(
\*     key=(USES_DEVICE, CREATE_TIME), reverse=[True, False], aggregation=[max, min])
nbstat_sort_by_index(rows, ivs, sort_) ==
    IF ~sort_ THEN [error |-> NoError, data |-> rows, index_values |-> ivs]
    ELSE sort_by_index(set_column(rows, "uses_device",
                                  [i \in 1..Len(rows) |-> uses_device(rows[i])]),
                       "path", ivs, Li(<<"uses_device", "create_time">>), Sc(0),
                       Li(<<TRUE, FALSE>>), Li(<<"max", "min">>))

\* if verbose <= 1: table.filter_by_index(lambda entry: entry.get(DEVICE_ID) is not
\* None).  In a table without the DEVICE_ID column entry.get returns None for every
\* entry, so that no group is kept.
nbstat_filter_by_index(rows, ivs, verbose) ==
    IF verbose > 1 THEN [error |-> NoError, data |-> rows, index_values |-> ivs]
    ELSE IF "device_id" \in columns(rows)
    THEN filter_by_index(rows, "path", ivs,
                         [column |-> "device_id", equal |-> FALSE, value |-> None])
    ELSE [error |-> NoError, data |-> << >>, index_values |-> << >>]

\* make_nbstat_table(formatter, sort, verbose) on the tables of the collectors
make_nbstat_table(device_process_table, notebook_table, process_table, alive, warnings, sort_, verbose) ==
    LET j == device_join(process_table, device_process_table, alive, warnings)
        u == notebook_update(j.data, notebook_table)
        s == nbstat_sort(u.data, sort_)
        f == nbstat_filter(s.data, verbose)
        x == set_index(f, "path")
        y == nbstat_sort_by_index(x.data, x.index_values, sort_)
        z == nbstat_filter_by_index(y.data, y.index_values, verbose)
        error == IF j.error # NoError THEN j.error
                 ELSE IF u.error # NoError THEN u.error
                 ELSE IF s.error # NoError THEN s.error
                 ELSE IF x.error # NoError THEN x.error
                 ELSE IF y.error # NoError THEN y.error
                 ELSE z.error
    IN  ViewResult(error, z.data, z.index_values, j.warnings,
                   j.hosted, j.checked, j.merged,
                   IF j.error = NoError /\ u.error = NoError THEN u.data ELSE << >>)
----------------------------------------------------------------------------
(* make_devicestat_table *)

\* devicestat_check_device_pids: entry[HOST_PID] is a KeyError in a table that was
\* not merged with the process table
devicestat_check_raises(rows) ==
    \E i \in 1..Len(rows) : rows[i].device_process_pid # None
                            /\ "host_pid" \notin DOMAIN rows[i]

\* the entries after devicestat_check_device_pids: a device pid that no process
\* row matched gets a template name
devicestat_check_entry(entry, alive) ==
    IF entry.device_process_pid # None /\ entry.host_pid = None
    THEN dict_update(entry,
             [name |-> missing_name(entry.device_process_pid.v, alive),
              type |-> missing_name(entry.device_process_pid.v, alive),
              path |-> missing_name(entry.device_process_pid.v, alive),
              status |-> Sleeping])
    ELSE entry

\* devicestat_check_device_pids(table): the warnings are emptied first
devicestat_check_device_pids(rows, alive) ==
    IF devicestat_check_raises(rows)
    THEN [error |-> "KeyError", data |-> rows, warnings |-> {}]
    ELSE [error |-> NoError,
          data |-> [i \in 1..Len(rows) |-> devicestat_check_entry(rows[i], alive)],
          warnings |-> {rows[i].device_process_pid.v :
                           i \in {k \in 1..Len(rows) :
                                     rows[k].device_process_pid # None
                                     /\ rows[k].host_pid = None}}]

\* if process_table: table = table.merge(process_table, self_key=DEVICE_PROCESS_PID,
\*                                       other_key=HOST_PID)
process_join(rows, hosted) ==
    IF hosted = << >> THEN Ok(rows)
    ELSE LET r == merge(rows, hosted, "device_process_pid", "host_pid")
         IN  [error |-> r.error, data |-> r.data]

\* make_devicestat_table(formatter) on the tables of the collectors
make_devicestat_table(device_table, device_process_table, notebook_table, process_table, alive, warnings) ==
    LET device_pids == column_values(device_process_table, "device_process_pid")
        hosted == set_column(process_table, "host_pid",
                      [i \in 1..Len(process_table) |->
                          select_pid(process_table[i], device_pids)])
        t == unroll(device_table)
        m == process_join(t.data, hosted)
        u == notebook_update(m.data, notebook_table)
        c == devicestat_check_device_pids(u.data, alive)
        s == sort(c.data, Sc("create_time"), Sc(0), Sc(FALSE))
        x == set_index(s.data, "device_id")
        y == sort_by_index(x.data, "device_id", x.index_values,
                           Sc("device_id"), Sc(0), Sc(FALSE), Sc("min"))
        before_check == t.error = NoError /\ m.error = NoError /\ u.error = NoError
        error == IF t.error # NoError THEN t.error
                 ELSE IF m.error # NoError THEN m.error
                 ELSE IF u.error # NoError THEN u.error
                 ELSE IF c.error # NoError THEN c.error
                 ELSE IF s.error # NoError THEN s.error
                 ELSE IF x.error # NoError THEN x.error
                 ELSE y.error
    IN  ViewResult(error, y.data, y.index_values,
                   IF before_check THEN c.warnings ELSE warnings,
                   hosted, NoCheck,
                   IF t.error = NoError /\ m.error = NoError THEN m.data ELSE << >>,
                   IF before_check THEN u.data ELSE << >>)

----------------------------------------------------------------------------
(* Building the views from the tables of the collectors *)

MaxDevices == 2
MaxProcesses == 3

\* the pids of the compute processes of one device (host namespace)
DevicePidLists == {<< >>, <<7>>, <<7, 8>>}

\* device_table: devices 0 .. n - 1, one row each
DeviceTables ==
    UNION {{[d \in 1..n |-> device_info(d - 1, pids[d])] :
               pids \in [1..n -> DevicePidLists]} : n \in 0..MaxDevices}

\* Python processes: one seen through its NGID, a child with no device, a root
\* with no device, one whose pid and NGID are both device pids, one whose own pid
\* is a device pid, a child on a device
ProcessInfos ==
    {process_info(1, 7, 1, RootPpid, Sc(1)),
     process_info(2, 5, 1, Sc(1), None),
     process_info(3, 3, 2, RootPpid, None),
     process_info(8, 7, 2, RootPpid, None),
     process_info(7, 6, 2, Sc(3), None),
     process_info(4, 8, 1, Sc(1), None)}

\* process_table: the pids of psutil.pids() are distinct
ProcessTables ==
    {t \in SeqsUpTo(ProcessInfos, MaxProcesses) :
        \A i, j \in 1..Len(t) : i # j => t[i].pid # t[j].pid}

\* notebook_table: no running session, or the session of kernel 1
NotebookTables == {<< >>, << [name |-> Sc(3), path |-> Sc(3), kernel |-> Sc(1)] >>}

\* the device pids psutil.pid_exists finds
AliveSets == {{}, {7}}

NoWarnings == {}

InitView ==
    /\ NoTable
    /\ formatter = << >>
    /\ inspector \in [device_table : DeviceTables, notebook_table : NotebookTables,
                      process_table : ProcessTables, alive : AliveSets,
                      warnings : {NoWarnings}]
    /\ now = 0
    /\ watch = << >>
    /\ terminal = << >>

\* the record kept of a call of a view builder
ViewCall(name, sort_, verbose) ==
    [name |-> name, sort |-> sort_, verbose |-> verbose,
     device_table |-> inspector.device_table,
     device_process_table |-> device_process_table_of(inspector.device_table),
     notebook_table |-> inspector.notebook_table,
     process_table |-> inspector.process_table,
     alive |-> inspector.alive, warnings |-> inspector.warnings]

\* inspector.make_nbstat_table(sort=sort_, verbose=verbose)
MakeNbstatTable(sort_, verbose) ==
    LET r == make_nbstat_table(device_process_table_of(inspector.device_table),
                               inspector.notebook_table, inspector.process_table,
                               inspector.alive, inspector.warnings, sort_, verbose)
    IN  /\ call' = ViewCall("make_nbstat_table", sort_, verbose)
        /\ ret' = r
        /\ data' = ret'.data
        /\ has_index' = (ret'.error = NoError)
        /\ index' = IF ret'.error = NoError THEN "path" ELSE NoIndex
        /\ index_values' = ret'.index_values
        /\ inspector' = [inspector EXCEPT !.warnings = ret'.warnings]
        /\ UNCHANGED <<other, formatter, now, watch, terminal>>

\* inspector.make_devicestat_table()
MakeDevicestatTable ==
    LET r == make_devicestat_table(inspector.device_table,
                                   device_process_table_of(inspector.device_table),
                                   inspector.notebook_table, inspector.process_table,
                                   inspector.alive, inspector.warnings)
    IN  /\ call' = ViewCall("make_devicestat_table", TRUE, 0)
        /\ ret' = r
        /\ data' = ret'.data
        /\ has_index' = (ret'.error = NoError)
        /\ index' = IF ret'.error = NoError THEN "device_id" ELSE NoIndex
        /\ index_values' = ret'.index_values
        /\ inspector' = [inspector EXCEPT !.warnings = ret'.warnings]
        /\ UNCHANGED <<other, formatter, now, watch, terminal>>

ViewVerbosities == {0, 1, 2}

NextView ==
    \/ (call = NoCall /\ \E sort_ \in BOOLEAN, verbose \in ViewVerbosities :
                             MakeNbstatTable(sort_, verbose))
    \/ (call = NoCall /\ MakeDevicestatTable)

SpecView == InitView /\ [][NextView]_vars
----------------------------------------------------------------------------
(* Claims about the views *)

\* the device-reported pids of the call
DevicePidSet == Range(column_values(call.device_process_table, "device_process_pid"))

\* the process view was built and the device collector reported processes
NbstatJoined == /\ call # NoCall
                /\ call.name = "make_nbstat_table"
                /\ call.device_process_table # << >>

\* a view builder computed the host pids
HostPidsComputed ==
    /\ call # NoCall
    /\ call.name = "make_nbstat_table" => call.device_process_table # << >>

\* the host pids of the process rows before the check
HostPids == Range(column_values(ret.hosted, "host_pid"))

\* the device pids no process row matched
MissingPids == DevicePidSet \ HostPids

\* the rows the check appended
Placeholders ==
    SubSeq(ret.checked.data, Len(ret.hosted) + 1, Len(ret.checked.data))

\* the tag of a placeholder row
Tag(pid) == IF pid.v \in call.alive THEN NonPython ELSE DeviceZombie

\* C21: after nbstat_check_device_pids every device pid is the host pid of a row;
\* each device pid without a matching row is added exactly once, tagged
\* 'non-python' if alive and 'device_zombie' otherwise, and recorded in the
\* warnings; no error is raised, no earlier row is removed or changed; the merge
\* that follows keeps every device-process row
C21_MissingPidsRepaired ==
    NbstatJoined =>
        /\ ret.checked.error = NoError
        /\ \A d \in DevicePidSet :
              \E i \in 1..Len(ret.checked.data) : ret.checked.data[i].host_pid = d
        /\ SubSeq(ret.checked.data, 1, Len(ret.hosted)) = ret.hosted
        /\ Len(Placeholders) = Cardinality(MissingPids)
        /\ \A d \in MissingPids :
              \E i \in 1..Len(Placeholders) :
                 /\ Placeholders[i].host_pid = d
                 /\ Placeholders[i].name = Tag(d)
                 /\ Placeholders[i].type = Tag(d)
                 /\ Placeholders[i].path = Tag(d)
        /\ MissingPids # {} => {d.v : d \in MissingPids} \subseteq inspector.warnings
        /\ \A k \in 1..Len(call.device_process_table) :
              \E i \in 1..Len(ret.merged) :
                 /\ ret.merged[i].device_process_pid
                       = call.device_process_table[k].device_process_pid
                 /\ ret.merged[i].device_id = call.device_process_table[k].device_id

\* a live and a dead device pid are added to a table that has process rows
C21_Witness ==
    /\ NbstatJoined
    /\ ret.hosted # << >>
    /\ \E i, j \in 1..Len(Placeholders) :
          Placeholders[i].name = NonPython /\ Placeholders[j].name = DeviceZombie

\* one device pid is matched by a process row, the other one is added
C21_WitnessMatched ==
    /\ NbstatJoined
    /\ Len(Placeholders) = 1
    /\ \E i \in 1..Len(ret.hosted) : ret.hosted[i].host_pid \in DevicePidSet
    /\ Cardinality(DevicePidSet) = 2
    /\ ret.error = NoError

\* the placeholders are the first rows of a table: the process table was empty
C21_WitnessEmpty ==
    /\ NbstatJoined
    /\ ret.hosted = << >>
    /\ Len(Placeholders) = 2
    /\ ret.error = NoError

\* a collector that returned nothing
NoDeviceData == call.device_process_table = << >>
NoSessionData == call.notebook_table = << >>

\* C22: when the device collector or the session collector returns an empty table,
\* make_nbstat_table (sort=True) and make_devicestat_table return a table
C22_EmptyCollectorsSucceed ==
    (/\ call # NoCall
     /\ call.sort
     /\ NoDeviceData \/ NoSessionData) => ret.error = NoError

\* no device process, one Python process, sort=True: the sort raises KeyError
C22_NbstatKeyError ==
    /\ call # NoCall
    /\ call.name = "make_nbstat_table"
    /\ call.sort
    /\ NoDeviceData
    /\ Len(call.process_table) = 1
    /\ ret.error = "KeyError"

\* devices, none with a process, and no Python process: KeyError
C22_DevicestatKeyError ==
    /\ call # NoCall
    /\ call.name = "make_devicestat_table"
    /\ NoDeviceData
    /\ call.device_table # << >>
    /\ call.process_table = << >>
    /\ ret.error = "KeyError"

\* no device at all and a Python process: TypeError
C22_DevicestatTypeError ==
    /\ call # NoCall
    /\ call.name = "make_devicestat_table"
    /\ call.device_table = << >>
    /\ call.process_table # << >>
    /\ ret.error = "TypeError"

\* the number of times an entry occurs in a list
Count(rows, entry) == Cardinality({i \in 1..Len(rows) : rows[i] = entry})

\* the same entries the same number of times, in any order
SameEntries(a, b) == \A entry \in Range(a) \cup Range(b) : Count(a, entry) = Count(b, entry)

\* the rows of the returned table without the columns added for sorting
ReturnedRows == [i \in 1..Len(ret.data) |-> Restrict(ret.data[i], columns(ret.joined))]

UsesDevice(entry) == get(entry, "device_id") # None

\* the group (notebook or script) of the entry has a row of a device process
GroupUsesDevice(entry) ==
    \E k \in 1..Len(ret.joined) : /\ ret.joined[k].path = entry.path
                                  /\ UsesDevice(ret.joined[k])

NbstatReturned == /\ call # NoCall
                  /\ call.name = "make_nbstat_table"
                  /\ ret.error = NoError

C27_WitnessGroups ==
    /\ NbstatReturned
    /\ call.verbose = 1
    /\ ret.data # << >>
    /\ Len(ret.data) < Len(ret.joined)
    /\ \E i \in 1..Len(ret.data) : ~UsesDevice(ret.data[i])

\* C28 as stated: the host pid is the own pid if it is a device pid, else the NGID
C28_OwnPidFirst ==
    HostPidsComputed =>
        /\ Len(ret.hosted) = Len(call.process_table)
        /\ \A i \in 1..Len(ret.hosted) :
              ret.hosted[i].host_pid =
                 IF call.process_table[i].pid \in DevicePidSet
                 THEN call.process_table[i].pid ELSE call.process_table[i].ngid

\* C28: the host pid of a process row is its NGID if the NGID is one of the
\* device-reported pids, and otherwise its own pid; the rest of the row is kept
C28_NgidFirst ==
    HostPidsComputed =>
        /\ Len(ret.hosted) = Len(call.process_table)
        /\ \A i \in 1..Len(ret.hosted) :
              /\ ret.hosted[i].host_pid =
                    IF call.process_table[i].ngid \in DevicePidSet
                    THEN call.process_table[i].ngid ELSE call.process_table[i].pid
              /\ Restrict(ret.hosted[i], DOMAIN call.process_table[i])
                    = call.process_table[i]

\* a row whose pid and NGID are both device pids gets its NGID, a row with neither
\* gets its own pid
C28_Witness ==
    /\ HostPidsComputed
    /\ \E i, j \in 1..Len(ret.hosted) :
          /\ ret.hosted[i].pid \in DevicePidSet
          /\ ret.hosted[i].ngid \in DevicePidSet
          /\ ret.hosted[i].pid # ret.hosted[i].ngid
          /\ ret.hosted[i].host_pid = ret.hosted[i].ngid
          /\ ret.hosted[j].pid \notin DevicePidSet
          /\ ret.hosted[j].ngid \notin DevicePidSet
          /\ ret.hosted[j].pid # ret.hosted[j].ngid
          /\ ret.hosted[j].host_pid = ret.hosted[j].pid

\* the device view computes the host pids even when no device process is reported
C28_WitnessDevicestat ==
    /\ HostPidsComputed
    /\ call.name = "make_devicestat_table"
    /\ DevicePidSet = {}
    /\ ret.hosted # << >>

----------------------------------------------------------------------------
(* FiniteList: the list of the last values of a device's utilization *)

\* FiniteList(size=size): an empty list that keeps at most `size` elements
FiniteList(size) == [items |-> << >>, size |-> size]

\* mutant: the list grows without evicting
FiniteList_append_all(lst, obj) == [lst EXCEPT !.items = Append(@, obj)]

\* FiniteList.append: if len(self) >= self.size: self.pop(0); then list.append
FiniteList_append(lst, obj) ==
    [lst EXCEPT !.items = Append(IF Len(@) >= lst.size THEN Tail(@) ELSE @, obj)]

\* sum(sublist)
RECURSIVE sum(_)
sum(values) == IF values = << >> THEN 0 ELSE Head(values) + sum(Tail(values))

\* round(total / n) for a total >= 0: the nearest integer, a tie goes to the even one
round(total, n) ==
    LET q == total \div n
        r == total % n
    IN  IF 2 * r < n THEN q
        ELSE IF 2 * r > n THEN q + 1
        ELSE IF q % 2 = 0 THEN q ELSE q + 1

\* self[-size:] for size >= 1: the last `size` elements, all of them if there are fewer
last(values, size) ==
    SubSeq(values, IF Len(values) > size THEN Len(values) - size + 1 ELSE 1, Len(values))

\* what get_average returns: a number, None, or the error of a division by zero
Average(value) == [error |-> NoError, none |-> FALSE, value |-> value]
Unavailable == [error |-> NoError, none |-> TRUE, value |-> 0]
ZeroDivision == [error |-> "ZeroDivisionError", none |-> FALSE, value |-> 0]

\* size = size or self.size: an argument of None or 0 stands for the capacity
window(lst, size) == IF size = 0 THEN lst.size ELSE size

\* mutant: the average of the first `size` elements
get_average_first(lst, size) ==
    LET sublist == SubSeq(lst.items, 1, Smaller(window(lst, size), Len(lst.items)))
    IN  IF Len(lst.items) > window(lst, size) \div 2
        THEN IF Len(sublist) = 0 THEN ZeroDivision
             ELSE Average(round(sum(sublist), Len(sublist)))
        ELSE Unavailable

\* mutant: None only if there are less than size // 2 elements, as the docstring says
get_average_docstring(lst, size) ==
    LET sublist == last(lst.items, window(lst, size))
    IN  IF Len(lst.items) >= window(lst, size) \div 2
        THEN IF Len(sublist) = 0 THEN ZeroDivision
             ELSE Average(round(sum(sublist), Len(sublist)))
        ELSE Unavailable

\* FiniteList.get_average(size)
get_average(lst, size) ==
    LET sublist == last(lst.items, window(lst, size))
    IN  IF Len(lst.items) > window(lst, size) \div 2
        THEN IF Len(sublist) = 0 THEN ZeroDivision
             ELSE Average(round(sum(sublist), Len(sublist)))
        ELSE Unavailable

----------------------------------------------------------------------------
(* A list that is appended to and averaged *)

MaxSize == 3
MaxPushes == 5
MaxWindow == 7

\* utilization readings
Samples == {1, 2, 3}

\* `pushed` is every value appended so far, oldest first
InitRing ==
    /\ NoTable
    /\ formatter = << >>
    /\ \E size \in 1..MaxSize : inspector = [lst |-> FiniteList(size), pushed |-> << >>]
    /\ now = 0
    /\ watch = << >>
    /\ terminal = << >>

\* lst.append(obj)
RingAppend(obj) ==
    /\ call' = [name |-> "append", lst |-> inspector.lst, pushed |-> inspector.pushed,
                obj |-> obj]
    /\ ret' = NoReturn
    /\ inspector' = [lst |-> FiniteList_append(inspector.lst, obj),
                     pushed |-> Append(inspector.pushed, obj)]
    /\ UNCHANGED <<data, has_index, index, index_values, other>>
    /\ UNCHANGED <<formatter, now, watch, terminal>>

\* lst.get_average(size)
RingAverage(size) ==
    /\ call' = [name |-> "get_average", lst |-> inspector.lst,
                pushed |-> inspector.pushed, size |-> size]
    /\ ret' = get_average(inspector.lst, size)
    /\ UNCHANGED <<data, has_index, index, index_values, other>>
    /\ UNCHANGED session_vars

NextRing ==
    \/ (call = NoCall /\ \E obj \in Samples :
                             (Len(inspector.pushed) < MaxPushes /\ RingAppend(obj)))
    \/ (call = NoCall /\ \E size \in 0..MaxWindow : RingAverage(size))
    \/ Forget

SpecRing == InitRing /\ [][NextRing]_vars

----------------------------------------------------------------------------
(* Claims about the moving average *)

Averaged == call # NoCall /\ call.name = "get_average"

\* get_average(w) after at least w pushes, 1 <= w <= capacity
FullWindow == /\ Averaged
              /\ call.size >= 1
              /\ call.size <= call.lst.size
              /\ Len(call.pushed) >= call.size

\* the total of the last w pushed values
LastTotal == sum(SubSeq(call.pushed, Len(call.pushed) - call.size + 1, Len(call.pushed)))

C23_WitnessExact ==
    /\ FullWindow
    /\ call.size = 3
    /\ LastTotal = 6
    /\ ret.value = 2
    /\ call.pushed[Len(call.pushed)] = 3

\* the window get_average works with
EffectiveSize == IF call.size = 0 THEN call.lst.size ELSE call.size

C24_WitnessEmpty ==
    /\ Averaged
    /\ ret.none
    /\ call.size = 1
    /\ call.lst.items = << >>

\* one element more than size // 2 gives a number
C24_WitnessNumber ==
    /\ Averaged
    /\ ~ret.none
    /\ call.size = 4
    /\ Len(call.lst.items) = 3

----------------------------------------------------------------------------
(* The watch loop in time: when get_view collects and when it serves the cache *)

\* The loop of output_looped with the clock: start_time, the duration of the
\* collection and of the rendering, the wait for a key.  get_view is taken to
\* return its view, as in ViewLines; the decision between the cache and a new
\* collection and the collection itself are those of the code.

\* the capacity of a list of device_utils in this model; FiniteList(size=1000) in
\* the code
UtilSize == 2

\* the longest collection and the longest rendering, in ticks
MaxCollect == 2
MaxRender == 1

\* the clock stops here
MaxPollTime == 12

\* the keys pressed in a run
MaxPollKeys == 2

\* self.device_handles: the ids of the devices
UtilDevices == {0, 1}

\* utilization.gpu of device 0; device 1 reads one more
UtilSamples == {10, 90}

\* formatter.get(DEVICE_UTIL, False) or formatter.get(DEVICE_UTIL_MA, False)
utilization_requested(fmt) == getitem(fmt, "DEVICE_UTIL") \/ getitem(fmt, "DEVICE_UTIL_MA")

\* get_device_table: lst = self.device_utils[device_id]; lst.append(utilization.gpu)
\* for every device, if the formatter asks for the utilization
push_utilization(device_utils, fmt, sample) ==
    IF utilization_requested(fmt)
    THEN [d \in DOMAIN device_utils |-> FiniteList_append(device_utils[d], sample + d)]
    ELSE device_utils

\* the values appended so far, with the same condition
record_pushed(pushed, fmt, sample) ==
    IF utilization_requested(fmt)
    THEN [d \in DOMAIN pushed |-> Append(pushed[d], sample + d)]
    ELSE pushed

\* self._cache.update({'table': ..., 'time': time.time(), 'parameters': {...}})
cache_update(table, t, name, fmt, verbose) ==
    [table |-> table, time |-> t, stored |-> TRUE,
     parameters |-> [name |-> name, n_formatter |-> n_formatter(fmt),
                     columns |-> active_columns(fmt), verbose |-> verbose]]

\* remaining_time = interval - (time() - start_time); the timeout of inkey is
\* remaining_time if it is positive, else interval
inkey_timeout(start_time, t, interval) ==
    IF interval - (t - start_time) > 0 THEN interval - (t - start_time) ELSE interval

\* the locals of the loop with start_time
NewPoll(name) == [start_time |-> 0] @@ NewWatch(name)

InitPoll ==
    /\ NoTable
    /\ \E name \in ViewNames : /\ watch = NewPoll(name)
                               /\ formatter = view_formatter(name)
    /\ inspector = [cache |-> NoCache,
                    device_utils |-> [d \in UtilDevices |-> FiniteList(UtilSize)],
                    pushed |-> [d \in UtilDevices |-> << >>]]
    /\ now = 0
    /\ terminal = NewTerminal

\* a pass of the loop up to the wait for a key: start_time = time(), then get_view
\* with use_cache=True (cli.py:279) takes the cached table or collects a new one,
\* which takes `collect`; formatting and printing take `render`
PollFrame(collect, render, sample) ==
    /\ watch.pc \in {"start", "frame"}
    /\ LET available == cache_available(inspector.cache, watch.name, formatter,
                                        watch.view_args.verbose, now, freshness(Interval))
           spent == IF available THEN render ELSE collect + render
       IN  /\ now + spent <= MaxPollTime
           /\ call' = [name |-> "frame", watch |-> watch, formatter |-> formatter,
                       inspector |-> inspector, now |-> now]
           /\ ret' = [error |-> NoError, data |-> << >>, cached |-> available]
           /\ IF available
              THEN UNCHANGED inspector
              ELSE inspector' =
                      [cache |-> cache_update(make_table(watch.name, formatter,
                                                  watch.view_args.verbose, now),
                                              now + collect, watch.name, formatter,
                                              watch.view_args.verbose),
                       device_utils |-> push_utilization(inspector.device_utils,
                                                         formatter, sample),
                       pushed |-> record_pushed(inspector.pushed, formatter, sample)]
           /\ now' = now + spent
    /\ watch' = [watch EXCEPT !.pc = "inkey", !.start_time = now,
                              !.view_args.vertical_change = 0,
                              !.frames = Smaller(@ + 1, MaxFrames)]
    /\ UNCHANGED <<data, has_index, index, index_values, other>>
    /\ UNCHANGED <<formatter, terminal>>

\* the wait ends: with no key when the timeout has passed, or with a key `waited`
\* ticks after it began
PollKey(inkey, waited) ==
    /\ watch.pc = "inkey"
    /\ LET timeout_ == inkey_timeout(watch.start_time, now, Interval)
           w == [watch EXCEPT !.inkey = inkey, !.keys = Smaller(@ + 1, MaxPollKeys)]
       IN  IF inkey = Timeout
           THEN /\ now + timeout_ <= MaxPollTime
                /\ now' = now + timeout_
                /\ watch' = [watch EXCEPT !.pc = "frame", !.inkey = inkey]
                /\ UNCHANGED formatter
           ELSE /\ waited < timeout_
                /\ now + waited <= MaxPollTime
                /\ now' = now + waited
                /\ LET r == on_key(w, formatter, terminal.height, inkey)
                   IN  /\ r.error = NoError
                       /\ watch' = [r.watch EXCEPT !.pc = "frame", !.force_clear = TRUE]
                       /\ formatter' = r.formatter
    /\ call' = [name |-> "key", watch |-> watch, formatter |-> formatter,
                inspector |-> inspector, now |-> now]
    /\ ret' = NoReturn
    /\ UNCHANGED <<data, has_index, index, index_values, other>>
    /\ UNCHANGED <<inspector, terminal>>

\* a key that changes the arguments only, the key that swaps the views, the key
\* that switches the utilization column
PollKeys == {"f", "TAB", "F7"}

NextPoll ==
    \/ \E collect \in 0..MaxCollect, render \in 0..MaxRender, sample \in UtilSamples :
           PollFrame(collect, render, sample)
    \/ \E waited \in 0..Interval : PollKey(Timeout, waited)
    \/ \E inkey \in PollKeys, waited \in 0..Interval :
           (watch.keys < MaxPollKeys /\ PollKey(inkey, waited))

SpecPoll == InitPoll /\ [][NextPoll]_vars


\* the last n elements of a sequence, in order
Latest(s, n) == IF Len(s) <= n THEN s ELSE SubSeq(s, Len(s) - n + 1, Len(s))

\* the pass of the loop that has just ended
PolledFrame == call.name = "frame"

\* C25: every list of device_utils is bounded by its capacity and holds the most
\* recent min(pushes, capacity) values in the order they were pushed, the oldest
\* one leaving first; a pass that collects pushes one value per device if the
\* formatter asks for the utilization and none if it does not; a pass served
\* from the cache pushes none
C25_RingBounded ==
    /\ \A d \in UtilDevices :
           /\ Len(inspector.device_utils[d].items) <= inspector.device_utils[d].size
           /\ inspector.device_utils[d].items =
                  Latest(inspector.pushed[d], inspector.device_utils[d].size)
    /\ PolledFrame =>
           \A d \in UtilDevices :
               Len(inspector.pushed[d]) =
                   Len(call.inspector.pushed[d]) +
                   (IF ~ret.cached /\ utilization_requested(call.formatter) THEN 1 ELSE 0)
    /\ (PolledFrame /\ ret.cached) => inspector.device_utils = call.inspector.device_utils

\* a full list has lost its oldest value to a new one
C25_Witness ==
    /\ PolledFrame
    /\ ~ret.cached
    /\ \A d \in UtilDevices :
           /\ Len(inspector.pushed[d]) > UtilSize
           /\ Len(call.inspector.device_utils[d].items) = UtilSize
           /\ inspector.pushed[d][Len(inspector.pushed[d]) - UtilSize] /=
                  inspector.pushed[d][Len(inspector.pushed[d])]

\* a pass served from the cache while the lists hold values
C25_WitnessCached ==
    /\ PolledFrame
    /\ ret.cached
    /\ utilization_requested(call.formatter)
    /\ \A d \in UtilDevices : inspector.device_utils[d].items /= << >>

\* a pass that collects with the utilization switched off
C25_WitnessNotRequested ==
    /\ PolledFrame
    /\ ~ret.cached
    /\ ~utilization_requested(call.formatter)
    /\ \A d \in UtilDevices : inspector.device_utils[d].items /= << >>

\* the pass began after a wait that ended with no key
AfterTimeout == PolledFrame /\ call.watch.pc = "frame" /\ call.watch.inkey = Timeout

\* C29: a pass of the loop that begins after the wait for a key timed out
\* collects the data again and never serves the cached table
C29_TimeoutPolls == AfterTimeout => ~ret.cached

\* a pass after a timeout that was served from the cache, one interval after the
\* pass that collected
C29_CachedAfterTimeout ==
    /\ AfterTimeout
    /\ ret.cached
    /\ call.now - call.watch.start_time = Interval

\* a pass after a timeout that collected
C29_PolledAfterTimeout == AfterTimeout /\ ~ret.cached

\* what the code does keep: a cached table is served only while it is no older
\* than the freshness bound, for the same view, columns and verbosity
C29_CacheFresh ==
    (PolledFrame /\ ret.cached) =>
        /\ call.inspector.cache.stored
        /\ call.now - call.inspector.cache.time <= freshness(Interval)
        /\ call.inspector.cache.parameters.name = call.watch.name


----------------------------------------------------------------------------
(* Reading included_only and the formatter *)

\* C30: reading included_only has no side effect: the formatter (the resource
\* and the include flag of every column, their order and their number) is after
\* the read what it was before
C30_ReadIsPure == call.name = "included_only" => formatter = call.formatter

\* C30, the case found: a read that returned a list has rewritten the resource of
\* a delimiter column of the formatter
C30_DelimiterRewritten ==
    /\ call.name = "included_only"
    /\ ret.error = NoError
    /\ Len(formatter) = Len(call.formatter)
    /\ \E i \in 1..Len(formatter) :
           /\ call.formatter[i].resource = "TABLE_DELIMITER1"
           /\ formatter[i].resource = "TABLE_DELIMITER2"
           /\ formatter[i].include = call.formatter[i].include

\* what the read does keep: the number of columns, their include flags, and the
\* resource of every column that is not a delimiter
C30_FlagsKept ==
    call.name = "included_only" =>
        /\ Len(formatter) = Len(call.formatter)
        /\ \A i \in 1..Len(formatter) :
               /\ formatter[i].include = call.formatter[i].include
               /\ ~is_delimiter(call.formatter[i].resource) =>
                      formatter[i].resource = call.formatter[i].resource


----------------------------------------------------------------------------
(* ResourceTable.format: the cells of the body and hide_similar *)

\* the longest table formatted
MaxHideRows == 3

\* a column of a formatter with its 'hidable' key:
\* column_dict.get('hidable', False)
HidableColumn(resource, hidable) ==
    [resource |-> resource, include |-> TRUE, hidable |-> hidable]

\* CMDLINE as in NBSTAT_FORMATTER ('hidable': True) and PID (no 'hidable' key)
HideColumns == << HidableColumn("cmdline", TRUE), HidableColumn("pid", FALSE) >>

\* str(data) of a non-negative integer: its decimal digits
DecimalDigits == <<"0", "1", "2", "3", "4", "5", "6", "7", "8", "9">>
RECURSIVE str(_)
str(n) == IF n < 10 THEN <<DecimalDigits[n + 1]>>
          ELSE str(n \div 10) \o <<DecimalDigits[(n % 10) + 1]>>

\* the string of a cell that is hidden: style, string = '', ''
Blank == << >>

\* ResourceEntry.to_format_data for PATH, CMDLINE, PID: str(data), or the default
\* string '-' when the value is None
entry_string(entry, resource) ==
    IF entry[resource] = None THEN <<"-">> ELSE str(entry[resource].v)

\* for i, entry in enumerate(subtable): the string of the entry, or '' if
\* hide_similar and hidable and i > 0  (aggregate is False, get_view never sets it)
subtable_strings(subtable, column_dict, hide_similar) ==
    [k \in 1..Len(subtable) |->
        IF hide_similar /\ column_dict.hidable /\ k - 1 > 0
        THEN Blank
        ELSE entry_string(subtable[k], column_dict.resource)]

\* the strings of a column of the body, one per row, over the subtables in order
column_strings(subtables, column_dict, hide_similar) ==
    Flatten([s \in 1..Len(subtables) |->
                subtable_strings(subtables[s], column_dict, hide_similar)])

\* processes: the path (the index), the command line (11 and 12 stand for two
\* command lines, None for an unknown one) and the pid
HideEntries == {[path |-> p, cmdline |-> c, pid |-> i] :
                   p \in {Sc(1), Sc(2)}, c \in {Sc(11), Sc(12), None}, i \in {Sc(7), Sc(8)}}

\* a table with the index 'path', as set_index leaves it
InitHide ==
    /\ \E rows \in SeqsUpTo(HideEntries, MaxHideRows) :
           /\ index_values = unique_values(rows, "path", << >>)
           /\ data = index_major(rows, "path", index_values)
    /\ has_index = TRUE
    /\ index = "path"
    /\ other = << >>
    /\ ret = NoReturn
    /\ call = NoCall
    /\ formatter = HideColumns
    /\ inspector = << >>
    /\ now = 0
    /\ watch = << >>
    /\ terminal = << >>

\* table.format(formatter, hide_similar=hide_similar): the strings of the body,
\* column by column
Format(hide_similar) ==
    /\ call' = [name |-> "format", hide_similar |-> hide_similar, formatter |-> formatter]
    /\ ret' = [error |-> NoError, data |-> << >>,
               strings |-> [c \in 1..Len(formatter) |->
                               column_strings(split_by_index(data, index, index_values),
                                              formatter[c], hide_similar)]]
    /\ UNCHANGED <<data, has_index, index, index_values, other>>
    /\ UNCHANGED session_vars

NextHide ==
    \/ (call = NoCall /\ \E hide_similar \in BOOLEAN : Format(hide_similar))
    \/ Forget

SpecHide == InitHide /\ [][NextHide]_vars

----------------------------------------------------------------------------
(* Claims about hide_similar *)

\* the table has been formatted with hide_similar on
Formatted == call.name = "format" /\ call.hide_similar

\* row p is not the first row of its subtable (the rows are in index-major order)
NotFirstOfGroup(p) == p > 1 /\ data[p].path = data[p - 1].path

\* row p has in the column the value of the row before it
SameAsPrevious(c, p) ==
    p > 1 /\ data[p][call.formatter[c].resource] = data[p - 1][call.formatter[c].resource]

\* C26: with hide_similar on, the cell of a hidable column in a row is blank if
\* and only if the row is not the first of its group and has in that column the
\* value of the row right before it in the group; a cell whose value differs is
\* kept, and no cell of a column that is not hidable is blank
C26_HideIffSame ==
    Formatted =>
        \A c \in 1..Len(call.formatter), p \in 1..Len(data) :
            (ret.strings[c][p] = Blank) <=>
                /\ call.formatter[c].hidable
                /\ NotFirstOfGroup(p)
                /\ SameAsPrevious(c, p)

\* C26, the case found: a hidden cell whose value differs from the value of the
\* row before it in the same group
C26_DifferentHidden ==
    /\ Formatted
    /\ \E c \in 1..Len(call.formatter), p \in 1..Len(data) :
           /\ ret.strings[c][p] = Blank
           /\ NotFirstOfGroup(p)
           /\ ~SameAsPrevious(c, p)

\* what the code does: with hide_similar on, the cell of a hidable column is blank
\* exactly in the rows that are not the first of their group; with hide_similar
\* off, and in columns that are not hidable, no cell is blank
C26_HideAfterFirst ==
    call.name = "format" =>
        \A c \in 1..Len(call.formatter) :
            /\ Len(ret.strings[c]) = Len(data)
            /\ \A p \in 1..Len(data) :
                   (ret.strings[c][p] = Blank) <=>
                       /\ call.hide_similar
                       /\ call.formatter[c].hidable
                       /\ NotFirstOfGroup(p)

====
